---- MODULE Spec2Model ----
(***************************************************************************)
(* Claimwise backend: the completion provider chain (llm.py, llm_groq.py,  *)
(* the /chat handler of main.py) and the generic cache engine              *)
(* (caching.py), modelled as state machines.                               *)
(*                                                                         *)
(* Python strings are TLA+ strings (TLC treats them as sequences of       *)
(* characters), so lower(), find(), slicing, startswith() and the `in`     *)
(* substring test are computed character by character.                     *)
(***************************************************************************)
EXTENDS Integers, Sequences, FiniteSets, TLC

(***************************************************************************)
(* Bounds of the model.                                                    *)
(***************************************************************************)
MaxRetriesBound == 3      \* largest max_retries argument explored

(***************************************************************************)
(* Python values: a str, None, or a raised exception with its message.     *)
(***************************************************************************)
Str(t) == [kind |-> "str", text |-> t]
None == [kind |-> "none", text |-> ""]
Raise(m) == [kind |-> "raise", text |-> m]

IsStr(v) == v.kind = "str"
IsNone(v) == v.kind = "none"
IsRaise(v) == v.kind = "raise"

\* Python truthiness of a str-or-None value: None and "" are falsy.
Truthy(v) == IsStr(v) /\ Len(v.text) > 0

(***************************************************************************)
(* str methods.                                                            *)
(***************************************************************************)
UpperAlpha == "ABCDEFGHIJKLMNOPQRSTUVWXYZ"
LowerAlpha == "abcdefghijklmnopqrstuvwxyz"

LowerOf == [c \in {SubSeq(UpperAlpha, i, i) : i \in 1..26} |->
              LET i == CHOOSE j \in 1..26 : SubSeq(UpperAlpha, j, j) = c
              IN SubSeq(LowerAlpha, i, i)]

UpperOf == [c \in {SubSeq(LowerAlpha, i, i) : i \in 1..26} |->
              LET i == CHOOSE j \in 1..26 : SubSeq(LowerAlpha, j, j) = c
              IN SubSeq(UpperAlpha, i, i)]

LowerChar(c) == IF c \in DOMAIN LowerOf THEN LowerOf[c] ELSE c

UpperChar(c) == IF c \in DOMAIN UpperOf THEN UpperOf[c] ELSE c

\* str.lower(), by halving so that the recursion stays shallow
RECURSIVE Lower(_)
Lower(s) ==
    IF Len(s) = 0 THEN ""
    ELSE IF Len(s) = 1 THEN LowerChar(s)
    ELSE LET h == Len(s) \div 2
         IN Lower(SubSeq(s, 1, h)) \o Lower(SubSeq(s, h + 1, Len(s)))

\* `w in s`
Contains(s, w) ==
    \E i \in 1..(Len(s) - Len(w) + 1) : SubSeq(s, i, i + Len(w) - 1) = w

\* s.startswith(p)
StartsWith(s, p) == Len(s) >= Len(p) /\ SubSeq(s, 1, Len(p)) = p

\* s.find(w): zero-based index of the first occurrence, -1 when absent
Find(s, w) ==
    IF Contains(s, w)
    THEN (CHOOSE i \in 1..(Len(s) - Len(w) + 1) :
             /\ SubSeq(s, i, i + Len(w) - 1) = w
             /\ \A j \in 1..(i - 1) : SubSeq(s, j, j + Len(w) - 1) # w) - 1
    ELSE -1

\* s[a:b] with Python's clamping of negative and out-of-range indices
PySlice(s, a, b) ==
    LET n == Len(s)
        norm(i) == IF i < 0 THEN (IF n + i < 0 THEN 0 ELSE n + i)
                   ELSE (IF i > n THEN n ELSE i)
    IN SubSeq(s, norm(a) + 1, norm(b))

\* any(word in s for word in words)
AnyIn(words, s) == \E w \in words : Contains(s, w)


\* s[i] as a one-character string, "" outside the string
Ch(s, i) == IF i >= 1 /\ i <= Len(s) THEN SubSeq(s, i, i) ELSE ""

\* str.title(): first letter of every word upper-cased, the others lower-cased
RECURSIVE TitleFrom(_, _)
TitleFrom(s, i) ==
    IF i > Len(s) THEN ""
    ELSE LET c == Ch(s, i)
             prevIsLetter == i > 1 /\ LowerChar(Ch(s, i - 1)) # UpperChar(Ch(s, i - 1))
         IN (IF prevIsLetter THEN LowerChar(c) ELSE UpperChar(c)) \o TitleFrom(s, i + 1)

Title(s) == TitleFrom(s, 1)

\* format(n, "03d") for 0 <= n < 1000
Format03d(n) ==
    IF n < 10 THEN "00" \o ToString(n)
    ELSE IF n < 100 THEN "0" \o ToString(n)
    ELSE ToString(n)

(***************************************************************************)
(* re.findall(r'₹[\d,]+|rs\.?\s*[\d,]+|inr\s*[\d,]+|\d+\s*lakh|\d+\s*crore') *)
(* of generate_rule_based_analysis: leftmost, non-overlapping matches, the *)
(* alternatives tried in order at each position.                           *)
(***************************************************************************)
Digits == {"0", "1", "2", "3", "4", "5", "6", "7", "8", "9"}
DigitOrComma == Digits \cup {","}
Whitespace == {" ", "\n", "\t", "\r"}
RupeeSign == "₹"

\* last index e >= j - 1 such that s[j..e] lies in class (a greedy class*)
RECURSIVE SpanEnd(_, _, _)
SpanEnd(s, j, class) ==
    IF Ch(s, j) \in class THEN SpanEnd(s, j + 1, class) ELSE j - 1

\* end of the match of  prefix \s* [\d,]+  starting at i (0: no match);
\* optDot says whether an optional "." may follow the prefix
AmountAfter(s, i, prefix, optDot) ==
    IF i + Len(prefix) - 1 > Len(s) \/ SubSeq(s, i, i + Len(prefix) - 1) # prefix THEN 0
    ELSE LET j0 == i + Len(prefix)
             j1 == IF optDot /\ Ch(s, j0) = "." THEN j0 + 1 ELSE j0
             j2 == SpanEnd(s, j1, Whitespace) + 1
             e == SpanEnd(s, j2, DigitOrComma)
         IN IF e >= j2 THEN e ELSE 0

\* end of the match of  \d+ \s* unit  starting at i (0: no match)
UnitAmount(s, i, unit) ==
    LET d == SpanEnd(s, i, Digits)
        w == SpanEnd(s, d + 1, Whitespace)
    IN IF d >= i /\ w + Len(unit) <= Len(s) /\ SubSeq(s, w + 1, w + Len(unit)) = unit
       THEN w + Len(unit) ELSE 0

AmountMatchEnd(s, i) ==
    LET a1 == AmountAfter(s, i, RupeeSign, FALSE)
        a2 == AmountAfter(s, i, "rs", TRUE)
        a3 == AmountAfter(s, i, "inr", FALSE)
        a4 == UnitAmount(s, i, "lakh")
        a5 == UnitAmount(s, i, "crore")
    IN IF a1 > 0 THEN a1 ELSE IF a2 > 0 THEN a2 ELSE IF a3 > 0 THEN a3
       ELSE IF a4 > 0 THEN a4 ELSE a5

\* the scan skips to the next position where some alternative matches
RECURSIVE FindAmounts(_, _)
FindAmounts(s, i) ==
    LET starts == {k \in i..Len(s) :
                     Ch(s, k) \in (Digits \cup {"r", "i", RupeeSign}) /\ AmountMatchEnd(s, k) > 0}
    IN IF starts = {} THEN << >>
       ELSE LET k == CHOOSE m \in starts : \A n \in starts : m <= n
                e == AmountMatchEnd(s, k)
            IN <<SubSeq(s, k, e)>> \o FindAmounts(s, e + 1)

(***************************************************************************)
(* llm._pattern_matching_fallback                                          *)
(***************************************************************************)
_pattern_matching_fallback(prompt) ==
    LET prompt_lower == Lower(prompt)
    IN IF AnyIn({"sum insured", "coverage amount", "insured amount"}, prompt_lower)
       THEN "Based on the policy document, please check the 'Sum Insured' section for coverage amounts. This information is typically listed in the policy schedule."
       ELSE IF AnyIn({"premium", "cost", "price"}, prompt_lower)
       THEN "Premium information can be found in the policy schedule section. The amount may vary based on coverage type and duration."
       ELSE IF AnyIn({"claim", "how to claim"}, prompt_lower)
       THEN "To file a claim, contact the insurance company's claim department. Required documents typically include policy details, medical bills, and claim forms."
       ELSE IF AnyIn({"maturity", "tenure", "duration"}, prompt_lower)
       THEN "Policy tenure and maturity details are specified in the policy terms section. Please refer to the policy schedule for specific dates."
       ELSE IF AnyIn({"exclusion", "not covered", "excluded"}, prompt_lower)
       THEN "Policy exclusions are listed in the exclusions section of the policy document. Please review this section carefully for items not covered."
       ELSE IF AnyIn({"deductible", "copay", "co-payment"}, prompt_lower)
       THEN "Deductible and co-payment information is specified in the policy terms. Check the 'Terms and Conditions' section for exact amounts."
       ELSE IF AnyIn({"renewal", "renew"}, prompt_lower)
       THEN "Policy renewal information and procedures are outlined in the renewal section of your policy document."
       ELSE "I apologize, but I cannot provide a detailed response at the moment due to service limitations. Please refer to your policy document or contact your insurance provider directly for specific information."

(***************************************************************************)
(* llm_groq.generate_rule_based_analysis                                   *)
(*                                                                         *)
(* hash(text_part) is Python's str hash: fixed within one interpreter      *)
(* process, salted per process (PYTHONHASHSEED).  The salt is the          *)
(* parameter seed; only hash(...) % 1000 is used.                          *)
(***************************************************************************)
PyHashMod1000(text, seed) == (Len(text) * 31 + seed) % 1000

ProviderNames ==
    <<"national insurance", "bajaj", "hdfc", "icici", "sbi", "reliance", "tata aig", "oriental">>

generate_rule_based_analysis(prompt, seed) ==
    LET text_start == Find(prompt, "following insurance policy text")
        text_part == IF text_start > 0
                     THEN PySlice(prompt, text_start + 31, Find(prompt, "Provide ONLY valid JSON"))
                     ELSE PySlice(prompt, 0, 2000)
        text_lower == Lower(text_part)
        policy_type ==
            IF AnyIn({"health", "medical", "mediclaim"}, text_lower) THEN "Health Insurance"
            ELSE IF AnyIn({"auto", "vehicle", "car"}, text_lower) THEN "Auto Insurance"
            ELSE IF AnyIn({"home", "property", "house"}, text_lower) THEN "Home Insurance"
            ELSE IF AnyIn({"life", "term"}, text_lower) THEN "Life Insurance"
            ELSE "Insurance Policy"
        found == {i \in 1..Len(ProviderNames) : Contains(text_lower, ProviderNames[i])}
        provider == IF found = {} THEN "Unknown Provider"
                    ELSE Title(ProviderNames[CHOOSE i \in found : \A j \in found : i <= j])
        amounts == FindAmounts(text_lower, 1)
        coverage_amount == IF Len(amounts) > 0 THEN amounts[1] ELSE "Coverage amount not specified"
        premium == IF Len(amounts) > 1 THEN amounts[2] ELSE "Premium not specified"
        nl == "\n        "
    IN "{" \o nl \o "\"policy_type\": \"" \o policy_type \o "\","
           \o nl \o "\"provider\": \"" \o provider \o "\","
           \o nl \o "\"policy_number\": \"FALLBACK-" \o Format03d(PyHashMod1000(text_part, seed)) \o "\","
           \o nl \o "\"coverage_amount\": \"" \o coverage_amount \o "\","
           \o nl \o "\"premium\": \"" \o premium \o "\","
           \o nl \o "\"deductible\": \"Deductible not specified\","
           \o nl \o "\"expiration_date\": \"\","
           \o nl \o "\"coverage\": \"Basic " \o Lower(policy_type) \o " coverage - detailed analysis unavailable\","
           \o nl \o "\"exclusions\": \"Exclusions not available - please review policy document\","
           \o nl \o "\"claim_process\": \"Standard insurance claim process applies\","
           \o nl \o "\"key_features\": [\"Basic coverage\", \"Standard policy features\"],"
           \o nl \o "\"claim_readiness_score\": 50"
           \o "\n    }"

(***************************************************************************)
(* State of the completion provider chain.                                 *)
(***************************************************************************)
VARIABLES
    cfg,          \* module-level clients built at import time
    hash_seed,    \* the interpreter's str-hash salt
    pc,           \* position of the request in the call chain
    entry,        \* which function the request entered through
    prompt,       \* prompt argument of the running chain function
    prefer_groq,  \* llm.make_llm_request: prefer_groq / PREFER_GROQ
    max_retries,  \* llm.make_llm_request: max_retries
    attempt,      \* make_gemini_request: loop variable
    delay,        \* make_gemini_request: current delay
    groq_ret,     \* where llm_groq.make_llm_request returns to
    llm_ret,      \* where llm.make_llm_request returns to
    groq_resp,    \* value returned by llm_groq.make_llm_request
    llm_resp,     \* value returned by llm.make_llm_request
    calls,        \* backend invocations of the running chain request, in order
    sleeps,       \* time.sleep() delays of the running chain request, in order
    chat_in,      \* main.chat: policy row, question, retrieval outcome
    result        \* value returned to the caller of the entry point

chainVars == <<cfg, hash_seed, pc, entry, prompt, prefer_groq, max_retries, attempt,
               delay, groq_ret, llm_ret, groq_resp, llm_resp, calls, sleeps,
               chat_in, result>>

\* caching.py: one AdvancedCache instance and the clock it reads
VARIABLES
    max_size,               \* AdvancedCache.max_size
    max_memory_bytes,       \* AdvancedCache.max_memory_bytes
    strategy,               \* AdvancedCache.strategy
    default_ttl,            \* AdvancedCache.default_ttl
    now,                    \* datetime.now(), in whole seconds
    _cache,                 \* AdvancedCache._cache, in dict insertion order
    _access_order,          \* AdvancedCache._access_order, in OrderedDict order
    _current_memory_usage,  \* AdvancedCache._current_memory_usage
    last_set,               \* per key: the latest accepted set still standing
    _lock,                  \* AdvancedCache._lock: the thread that holds it
    threads                 \* per thread: the cache call it is inside, if any

threadVars == <<_lock, threads>>

cacheVars == <<max_size, max_memory_bytes, strategy, default_ttl, now, _cache,
               _access_order, _current_memory_usage, last_set, threadVars>>

\* rag.py, content_filters.py: one call of a document pipeline function
VARIABLES
    chunk_run,              \* chunk_texts: arguments and locals of the call
    dedup_run,              \* deduplicate_chunks: argument and results
    embed_run               \* embed_texts_with_cache: the call and the provider's log

\* rag.py: indexing and retrieval against the vector store
VARIABLES
    index_run,              \* index_documents: arguments and locals of the call
    document_chunks,        \* the rows of the store's document_chunks table
    retrieve_run            \* retrieve_top_k: arguments and locals of the call

\* llm_groq.py, main.py, rate_limiting.py: callers and request services
VARIABLES
    analyze_run,            \* analyze_policy: arguments and locals of the call
    limit_run,              \* RateLimitManager: its limiters, its clock, the last check
    chat_run                \* main.chat: the request, its retrieval, prompt and citations

serviceVars == <<analyze_run, limit_run, chat_run>>
storeVars == <<index_run, document_chunks, retrieve_run>>
ragVars == <<chunk_run, dedup_run, embed_run, storeVars, serviceVars>>

\* what the actions of one component leave alone
besideChain == <<cacheVars, ragVars>>
besideCache == <<chainVars, ragVars>>
besideChunk == <<chainVars, cacheVars, dedup_run, embed_run, storeVars, serviceVars>>
besideDedup == <<chainVars, cacheVars, chunk_run, embed_run, storeVars, serviceVars>>
besideEmbed == <<chainVars, chunk_run, dedup_run, max_size, max_memory_bytes, strategy,
                 default_ttl, last_set, threadVars, storeVars, serviceVars>>
besideIndex == <<chainVars, cacheVars, chunk_run, dedup_run, embed_run, retrieve_run,
                 serviceVars>>
besideRetrieve == <<chainVars, cacheVars, chunk_run, dedup_run, embed_run, index_run,
                    document_chunks, serviceVars>>

\* no pipeline function is running
ChunkUnused == chunk_run = [pc |-> "unused"]
DedupUnused == dedup_run = [pc |-> "unused"]
EmbedUnused == embed_run = [pc |-> "unused"]
IndexUnused == index_run = [pc |-> "unused"] /\ document_chunks = << >>
RetrieveUnused == retrieve_run = [pc |-> "unused"]
StoreUnused == IndexUnused /\ RetrieveUnused
AnalyzeUnused == analyze_run = [pc |-> "unused"]
LimitUnused == limit_run = [pc |-> "unused"]
ChatUnused == chat_run = [pc |-> "unused"]
ServiceUnused == AnalyzeUnused /\ LimitUnused /\ ChatUnused
RagUnused == ChunkUnused /\ DedupUnused /\ EmbedUnused /\ StoreUnused /\ ServiceUnused

(***************************************************************************)
(* Import-time configuration.  gemini is the state of the Gemini SDK:      *)
(*   nokey  - GEMINI_API_KEY unset (llm.py raises at import)               *)
(*   nosdk  - key set, google.generativeai not importable                  *)
(*   sdk    - key set and SDK imported: llm.model is a client.models proxy *)
(*            or a GenerativeModel, llm_groq holds gemini_client or        *)
(*            gemini_model; either shape ends in one generate_content call *)
(***************************************************************************)
Configs ==
    [groq_client : BOOLEAN, groq_client_2 : BOOLEAN, groq_client_3 : BOOLEAN,
     gemini : {"nokey", "nosdk", "sdk"}]

gemini_available == cfg.gemini = "sdk"       \* llm_groq.gemini_available
model == cfg.gemini = "sdk"                  \* llm.model is not None
llm_importable == cfg.gemini # "nokey"                      \* llm.py line 11

HashSeeds == {3, 4}

(***************************************************************************)
(* What a backend can do when it is invoked: return a text (possibly None, *)
(* empty, too short or an error text) or raise.                            *)
(***************************************************************************)
GoodText(b) == "[" \o b \o "] Your policy covers hospitalisation up to the sum insured."
RateLimitMsg == "Error code: 429 - Rate limit reached"
HardMsg == "Error code: 401 - Invalid API Key"
NotFoundMsg == "404 models/gemini-1.5-pro is not found for API version v1beta, or is not supported for generateContent"

Responses(b) == {Str(GoodText(b)), Str(""), Str("OK"), Str("Error: upstream failure"), None}
GroqOutcomes(b) == Responses(b) \cup {Raise(RateLimitMsg), Raise(HardMsg)}
GeminiOutcomes(b) == Responses(b) \cup {Raise(RateLimitMsg), Raise(HardMsg), Raise(NotFoundMsg)}

Prompts == {"What is my premium?", "List the exclusions", "Hello"}
RetryChoices == 1..MaxRetriesBound

\* main.chat inputs
ShortPolicyText == "Policy HL-1"
LongPolicyText == "Health policy by Bajaj: cover of rs 5,00,000 with 2 lakh sub-limit on surgery."
ExtractedTexts == {ShortPolicyText, LongPolicyText}
Questions == {"How do I file a claim?"}
RetrievalOutcomes == {"import_error", "raise", "rows"}
RetrievedRows == << [id |-> 7, content |-> "Premium is payable yearly.", score |-> 9] >>

NoChat == [extracted_text |-> "", question |-> "", retrieval |-> "empty"]

(***************************************************************************)
(* llm.make_llm_request / llm_groq callers: acceptance of a Groq result    *)
(* (llm.py lines 68 and 93) and of a Gemini text (line 80).                *)
(***************************************************************************)
\* the minimum-length test of line 68 with a wrong threshold
GroqAccepted_TooStrict(response) ==
    Truthy(response) /\ ~StartsWith(response.text, "Error") /\ Len(response.text) > 100

GroqAccepted(response) ==
    Truthy(response) /\ ~StartsWith(response.text, "Error") /\ Len(response.text) > 10

GeminiAccepted(text_response) == Truthy(text_response) /\ Len(text_response.text) > 10

\* make_gemini_request line 151
IsRateLimitError(error_str) == Contains(error_str, "429") \/ Contains(Lower(error_str), "rate")

\* llm_groq.chat_with_policy: the prompt f-string
ChatWithPolicyPrompt(text, question, policy_number) ==
    "\n    You are an insurance expert and helpful advisor. Answer the following question using the provided policy information and your expertise:\n\n    Policy Text: "
    \o text \o
    "\n    Question: "
    \o question \o
    "\n    Policy Number: "
    \o (IF Truthy(policy_number) THEN policy_number.text ELSE "N/A") \o
    "\n    \n    Instructions:\n    1. First, check if the policy contains direct information to answer the question\n    2. If the policy has the information, provide it clearly with specific details\n    3. If the policy doesn't have specific information but you can provide general helpful guidance based on what's in the policy, do so\n    4. For questions about comparisons, industry averages, or general advice, provide helpful context even if not explicitly in the policy\n    5. Always be helpful - if you can't find exact data, provide relevant guidance or typical ranges\n    6. Format monetary amounts in Indian Rupees (₹) when applicable\n    7. Reference the specific policy when you have information from it\n    \n    Example approaches:\n    - If asked about premium comparison: Extract the premium from policy, then provide typical industry ranges for context\n    - If asked about coverage gaps: Analyze what's covered and suggest common additional coverages\n    - If asked about claim process but it's not detailed: Provide general best practices while noting policy limitations\n    \n    Always be helpful and informative, not just say \"information not available.\"\n    "

\* main.chat lines 643-658: the prompt built from the retrieved chunks
Excerpt(content) == IF Len(content) > 400 THEN SubSeq(content, 1, 400) \o "..." ELSE content

RECURSIVE JoinParts(_)
JoinParts(parts) ==
    IF Len(parts) = 0 THEN ""
    ELSE IF Len(parts) = 1 THEN parts[1]
    ELSE parts[1] \o "\n\n" \o JoinParts(Tail(parts))

FinalPrompt(extracted_text, question, top) ==
    LET prompt_parts == [i \in 1..Len(top) |-> Excerpt(top[i].content)]
        context_str == IF Len(prompt_parts) = 0 THEN PySlice(extracted_text, 0, 2000)
                       ELSE JoinParts(prompt_parts)
    IN "You are an insurance expert. Use the provided context to answer the question. Context:\n"
       \o context_str \o "\n\nQuestion: " \o question
       \o "\n\nAnswer succinctly and cite chunks by id when referenced."

(***************************************************************************)
(* Every prompt a chain function can receive in this model, and the two    *)
(* offline responders tabulated over them (each text is computed once).    *)
(***************************************************************************)
ChainPrompts ==
    Prompts
    \cup {FinalPrompt(t, q, top) : t \in ExtractedTexts, q \in Questions,
                                  top \in {<< >>, RetrievedRows}}
    \cup {ChatWithPolicyPrompt(t, q, None) : t \in ExtractedTexts, q \in Questions}

RuleBasedOf == [p \in ChainPrompts, seed \in HashSeeds |-> generate_rule_based_analysis(p, seed)]

PatternFallbackOf == [p \in ChainPrompts |-> _pattern_matching_fallback(p)]

(***************************************************************************)
(* Initial state: the modules have been imported, no request is running.   *)
(***************************************************************************)
ChainAtRest ==
    /\ pc = "idle"
    /\ entry = "none"
    /\ prompt = ""
    /\ prefer_groq = TRUE
    /\ max_retries = 3
    /\ attempt = 0
    /\ delay = 1
    /\ groq_ret = "none"
    /\ llm_ret = "none"
    /\ groq_resp = None
    /\ llm_resp = None
    /\ calls = << >>
    /\ sleeps = << >>
    /\ chat_in = NoChat
    /\ result = None

InitChain ==
    /\ cfg \in Configs
    /\ hash_seed \in HashSeeds
    /\ ChainAtRest

\* ProviderAttempt bookkeeping: which backend was invoked and how it answered.
\* A response is usable when it is non-empty, not an error text and longer
\* than the minimum length; an exception is a rate limit or a hard error.
Usable(out) == Truthy(out) /\ ~StartsWith(out.text, "Error") /\ Len(out.text) > 10

OutcomeClass(out) ==
    IF IsRaise(out)
    THEN (IF out.text = RateLimitMsg THEN "rate_limit" ELSE "hard_error")
    ELSE (IF Usable(out) THEN "usable" ELSE "unusable")

Invoke(b, out) == calls' = Append(calls, [backend |-> b, outcome |-> OutcomeClass(out)])

(***************************************************************************)
(* llm_groq.make_llm_request (lines 104-186)                               *)
(***************************************************************************)
\* return of llm_groq.make_llm_request to its caller
GroqReturns(val) ==
    /\ groq_resp' = val
    /\ pc' = groq_ret

\* a request made directly to llm_groq.make_llm_request
StartGroq(p) ==
    /\ pc = "idle"
    /\ UNCHANGED besideChain
    /\ entry' = "groq"
    /\ prompt' = p
    /\ groq_ret' = "groq_top"
    /\ pc' = "groq1"
    /\ UNCHANGED <<cfg, hash_seed, prefer_groq, max_retries, attempt, delay, llm_ret,
                   groq_resp, llm_resp, calls, sleeps, chat_in, result>>

GroqClientConfigured(i) ==
    CASE i = 1 -> cfg.groq_client
      [] i = 2 -> cfg.groq_client_2
      [] i = 3 -> cfg.groq_client_3

GroqBackend(i) == CASE i = 1 -> "groq1" [] i = 2 -> "groq2" [] i = 3 -> "groq3"
AfterGroq(i) == CASE i = 1 -> "groq2" [] i = 2 -> "groq3" [] i = 3 -> "groq_gemini"

\* Provider i (1..3): one chat.completions.create call, no retry
GroqProvider(i) ==
    /\ pc = GroqBackend(i)
    /\ UNCHANGED besideChain
    /\ IF ~GroqClientConfigured(i)
       THEN /\ pc' = AfterGroq(i)
            /\ UNCHANGED <<groq_resp, calls>>
       ELSE \E out \in GroqOutcomes(GroqBackend(i)) :
              /\ Invoke(GroqBackend(i), out)
              /\ IF IsRaise(out)
                 THEN pc' = AfterGroq(i) /\ UNCHANGED groq_resp
                 ELSE GroqReturns(out)
    /\ UNCHANGED <<cfg, hash_seed, entry, prompt, prefer_groq, max_retries, attempt, delay,
                   groq_ret, llm_ret, llm_resp, sleeps, chat_in, result>>

\* Provider 4: Gemini through the client or the direct SDK shape
GroqGemini ==
    /\ pc = "groq_gemini"
    /\ UNCHANGED besideChain
    /\ IF ~gemini_available
       THEN /\ pc' = "groq_rule"
            /\ UNCHANGED <<groq_resp, calls>>
       ELSE \E out \in GeminiOutcomes("gemini_flash") :
              /\ Invoke("gemini_flash", out)
              /\ IF IsRaise(out)
                 THEN pc' = "groq_rule" /\ UNCHANGED groq_resp
                 ELSE GroqReturns(out)
    /\ UNCHANGED <<cfg, hash_seed, entry, prompt, prefer_groq, max_retries, attempt, delay,
                   groq_ret, llm_ret, llm_resp, sleeps, chat_in, result>>

\* final fallback of llm_groq.make_llm_request
GroqRuleBased ==
    /\ pc = "groq_rule"
    /\ UNCHANGED besideChain
    /\ GroqReturns(Str(RuleBasedOf[prompt, hash_seed]))
    /\ UNCHANGED <<cfg, hash_seed, entry, prompt, prefer_groq, max_retries, attempt, delay,
                   groq_ret, llm_ret, llm_resp, calls, sleeps, chat_in, result>>

GroqTopReturn ==
    /\ pc = "groq_top"
    /\ UNCHANGED besideChain
    /\ result' = groq_resp
    /\ pc' = "done"
    /\ groq_resp' = None
    /\ groq_ret' = "none"
    /\ UNCHANGED <<cfg, hash_seed, entry, prompt, prefer_groq, max_retries, attempt, delay,
                   llm_ret, llm_resp, calls, sleeps, chat_in>>

(***************************************************************************)
(* llm.make_llm_request (lines 41-101) and make_gemini_request (137-161)   *)
(***************************************************************************)
LlmReturns(val) ==
    /\ llm_resp' = val
    /\ pc' = llm_ret

\* a request made directly to llm.make_llm_request
StartLlm(p, pg, mr) ==
    /\ pc = "idle"
    /\ UNCHANGED besideChain
    /\ llm_importable
    /\ entry' = "llm"
    /\ prompt' = p
    /\ prefer_groq' = pg
    /\ max_retries' = mr
    /\ llm_ret' = "llm_top"
    /\ pc' = "llm_begin"
    /\ UNCHANGED <<cfg, hash_seed, attempt, delay, groq_ret, groq_resp, llm_resp, calls,
                   sleeps, chat_in, result>>

\* lines 62-67 and 75-78: choose the first chain
LlmBegin ==
    /\ pc = "llm_begin"
    /\ UNCHANGED besideChain
    /\ IF prefer_groq
       THEN /\ groq_ret' = "llm_after_primary"
            /\ pc' = "groq1"
            /\ UNCHANGED <<attempt, delay>>
       ELSE /\ pc' = "llm_gemini"
            /\ attempt' = 0
            /\ delay' = 1
            /\ UNCHANGED groq_ret
    /\ UNCHANGED <<cfg, hash_seed, entry, prompt, prefer_groq, max_retries, llm_ret,
                   groq_resp, llm_resp, calls, sleeps, chat_in, result>>

\* lines 68-71: the Groq chain returned to chain 1
LlmAfterPrimary ==
    /\ pc = "llm_after_primary"
    /\ UNCHANGED besideChain
    /\ IF GroqAccepted(groq_resp)
       THEN LlmReturns(groq_resp) /\ UNCHANGED <<attempt, delay>>
       ELSE /\ pc' = "llm_gemini"
            /\ attempt' = 0
            /\ delay' = 1
            /\ UNCHANGED llm_resp
    /\ groq_resp' = None
    /\ groq_ret' = "none"
    /\ UNCHANGED <<cfg, hash_seed, entry, prompt, prefer_groq, max_retries, llm_ret,
                   calls, sleeps, chat_in, result>>

\* "Don't sleep on last attempt", with the test left out and as written
MayRetry_OnLastAttemptToo(tried, allowed) == TRUE

MayRetry(tried, allowed) == tried < allowed - 1

\* one iteration of make_gemini_request's loop, and lines 79-85 of the caller
GeminiAttempt ==
    /\ pc = "llm_gemini"
    /\ UNCHANGED besideChain
    /\ IF attempt >= max_retries
       THEN \* line 161: Max retries exceeded
            /\ pc' = "llm_except"
            /\ attempt' = 0 /\ delay' = 1
            /\ UNCHANGED <<llm_resp, calls, sleeps>>
       ELSE IF ~model
       THEN \* line 144: "Gemini model not initialized", not a rate-limit error
            /\ pc' = "llm_except"
            /\ attempt' = 0 /\ delay' = 1
            /\ UNCHANGED <<llm_resp, calls, sleeps>>
       ELSE \E out \in GeminiOutcomes("gemini_pro") :
              /\ Invoke("gemini_pro", out)
              /\ IF IsRaise(out)
                 THEN IF IsRateLimitError(out.text) /\ MayRetry(attempt, max_retries)
                      THEN /\ sleeps' = Append(sleeps, delay)
                           /\ delay' = delay * 2
                           /\ attempt' = attempt + 1
                           /\ UNCHANGED <<pc, llm_resp>>
                      ELSE /\ pc' = "llm_except"
                           /\ attempt' = 0 /\ delay' = 1
                           /\ UNCHANGED <<llm_resp, sleeps>>
                 ELSE /\ IF GeminiAccepted(out)
                         THEN LlmReturns(out)
                         ELSE LlmReturns(None)   \* falls off the end of the function
                      /\ attempt' = 0 /\ delay' = 1
                      /\ UNCHANGED sleeps
    /\ UNCHANGED <<cfg, hash_seed, entry, prompt, prefer_groq, max_retries, groq_ret, llm_ret,
                   groq_resp, chat_in, result>>

\* lines 84-101: the except branch of chain 2
LlmExcept ==
    /\ pc = "llm_except"
    /\ UNCHANGED besideChain
    /\ IF ~prefer_groq
       THEN /\ groq_ret' = "llm_after_fallback"
            /\ pc' = "groq1"
            /\ UNCHANGED llm_resp
       ELSE /\ LlmReturns(Str(PatternFallbackOf[prompt]))
            /\ UNCHANGED groq_ret
    /\ UNCHANGED <<cfg, hash_seed, entry, prompt, prefer_groq, max_retries, attempt, delay,
                   llm_ret, groq_resp, calls, sleeps, chat_in, result>>

\* lines 93-101: the Groq chain returned to the fallback of chain 2
LlmAfterFallback ==
    /\ pc = "llm_after_fallback"
    /\ UNCHANGED besideChain
    /\ IF GroqAccepted(groq_resp)
       THEN LlmReturns(groq_resp)
       ELSE LlmReturns(Str(PatternFallbackOf[prompt]))
    /\ groq_resp' = None
    /\ groq_ret' = "none"
    /\ UNCHANGED <<cfg, hash_seed, entry, prompt, prefer_groq, max_retries, attempt, delay,
                   llm_ret, calls, sleeps, chat_in, result>>

LlmTopReturn ==
    /\ pc = "llm_top"
    /\ UNCHANGED besideChain
    /\ result' = llm_resp
    /\ pc' = "done"
    /\ llm_resp' = None
    /\ llm_ret' = "none"
    /\ UNCHANGED <<cfg, hash_seed, entry, prompt, prefer_groq, max_retries, attempt, delay,
                   groq_ret, groq_resp, calls, sleeps, chat_in>>

(***************************************************************************)
(* main.chat (lines 600-702) with llm_groq.chat_with_policy (544-592)      *)
(***************************************************************************)
\* the fallback of lines 667-671: chat_with_policy builds its prompt and
\* calls llm_groq.make_llm_request
EnterChatFallback(text, q) ==
    /\ prompt' = ChatWithPolicyPrompt(text, q, None)
    /\ groq_ret' = "chat_after_fallback"
    /\ pc' = "groq1"
    /\ calls' = << >>
    /\ sleeps' = << >>

\* lines 613-663: load the policy, retrieve, build the prompt, call the chain.
\* pg is the PREFER_GROQ setting of the deployment.
StartChat(text, q, r, pg) ==
    /\ pc = "idle"
    /\ UNCHANGED besideChain
    /\ entry' = "chat"
    /\ chat_in' = [extracted_text |-> text, question |-> q, retrieval |-> r]
    /\ prefer_groq' = pg
    /\ IF Len(text) = 0 \/ Len(text) < 50
       THEN /\ result' = Str("This policy appears to have no extracted text. Please try re-uploading the policy document.")
            /\ pc' = "done"
            /\ UNCHANGED <<prompt, groq_ret, llm_ret, calls, sleeps>>
       ELSE IF r = "import_error"
       THEN /\ result' = Str("Server misconfiguration: retrieval not available")
            /\ pc' = "done"
            /\ UNCHANGED <<prompt, groq_ret, llm_ret, calls, sleeps>>
       ELSE IF ~llm_importable
       THEN \* `from src.llm import make_llm_request` raises inside the try
            /\ EnterChatFallback(text, q)
            /\ UNCHANGED <<llm_ret, result>>
       ELSE /\ prompt' = FinalPrompt(text, q, IF r = "rows" THEN RetrievedRows ELSE << >>)
            /\ llm_ret' = "chat_after_llm"
            /\ pc' = "llm_begin"
            /\ UNCHANGED <<groq_ret, result, calls, sleeps>>
    /\ UNCHANGED <<cfg, hash_seed, max_retries, attempt, delay, groq_resp, llm_resp>>

\* lines 664-671: the chain returned
ChatAfterLlm ==
    /\ pc = "chat_after_llm"
    /\ UNCHANGED besideChain
    /\ IF IsNone(llm_resp)
       THEN \* ValueError("LLM returned None"), caught at line 667
            /\ EnterChatFallback(chat_in.extracted_text, chat_in.question)
            /\ UNCHANGED result
       ELSE /\ result' = Str(llm_resp.text)
            /\ pc' = "done"
            /\ UNCHANGED <<prompt, groq_ret, calls, sleeps>>
    /\ llm_resp' = None
    /\ llm_ret' = "none"
    /\ UNCHANGED <<cfg, hash_seed, entry, prefer_groq, max_retries, attempt, delay,
                   groq_resp, chat_in>>

\* chat_with_policy line 574 and main.chat line 671
ChatAfterFallback ==
    /\ pc = "chat_after_fallback"
    /\ UNCHANGED besideChain
    /\ result' = IF ~IsNone(groq_resp) THEN groq_resp
                 ELSE Str("No response received from LLM service")
    /\ pc' = "done"
    /\ groq_resp' = None
    /\ groq_ret' = "none"
    /\ UNCHANGED <<cfg, hash_seed, entry, prompt, prefer_groq, max_retries, attempt, delay,
                   llm_ret, llm_resp, calls, sleeps, chat_in>>

(***************************************************************************)
(* caching.py: AdvancedCache.                                              *)
(*                                                                         *)
(* Every public method runs under self._lock, so each call is one step.    *)
(* The clock is read in whole seconds; Tick is the passage of one second.  *)
(* Cached values are strings, written as a unit repeated a number of       *)
(* times (Python: unit * times), so that values of the size of the byte    *)
(* budget can be stored without spelling them out.  The statistics         *)
(* counters _hits, _misses and _evictions are only ever incremented and    *)
(* are read by stats() alone; they are not part of the state here.         *)
(***************************************************************************)
KiB == 1024
BytesPerMB == KiB * KiB

MaxTime == 2           \* seconds the clock runs for
MaxAccessCount == 2    \* largest access_count an entry is read up to

\* Optional[int] and Optional[str]: None is the empty tuple, x is <<x>>
NoInt == << >>
SomeInt(n) == <<n>>
TruthyInt(o) == o # << >> /\ o[1] # 0
TruthyKey(o) == o # << >> /\ o[1] # ""

Strategies == {"lru", "lfu", "ttl", "fifo"}
Keys == {"k1", "k2"}
Repeat(unit, times) == [unit |-> unit, times |-> times]
TinyValue == Repeat("a", 1)
LargeValue == Repeat("l", (3 * BytesPerMB) \div 4)
FullValue == Repeat("f", BytesPerMB)
OversizeValue == Repeat("o", BytesPerMB + 1)
Values == {TinyValue, LargeValue, FullValue, OversizeValue}
TtlArgs == {NoInt, SomeInt(0), SomeInt(1)}
DefaultTtls == {NoInt, SomeInt(1)}
MaxSizeChoices == {1, 2, 3}
MemoryMbChoices == {1}

CacheItem(key, value, created_at, last_accessed, access_count, ttl, size_bytes) ==
    [key |-> key, value |-> value, created_at |-> created_at,
     last_accessed |-> last_accessed, access_count |-> access_count,
     ttl |-> ttl, size_bytes |-> size_bytes]

is_expired_AtDeadline(item, current_time) ==
    IF item.ttl = NoInt THEN FALSE
    ELSE current_time >= item.created_at + item.ttl[1]

is_expired(item, current_time) ==
    IF item.ttl = NoInt THEN FALSE
    ELSE current_time > item.created_at + item.ttl[1]

_calculate_size(value) == Len(value.unit) * value.times

\* dict helpers over the insertion-ordered item list
KeysOf(cache) == [i \in 1..Len(cache) |-> cache[i].key]
HasKey(cache, key) == \E i \in 1..Len(cache) : cache[i].key = key
ItemOf(cache, key) == cache[CHOOSE i \in 1..Len(cache) : cache[i].key = key]
InOrder(order, key) == \E i \in 1..Len(order) : order[i] = key

\* min(keys, key=lambda k: cache[k].<attr>): the first key, in iteration
\* order, whose item has the least attr
MinKey(cache, attr) ==
    LET i == CHOOSE i \in 1..Len(cache) :
                 /\ \A j \in 1..Len(cache) : cache[i][attr] <= cache[j][attr]
                 /\ \A j \in 1..(i - 1) : cache[j][attr] # cache[i][attr]
    IN  cache[i].key

\* the three fields the methods change, as one value
Cur == [cache |-> _cache, order |-> _access_order, usage |-> _current_memory_usage]
Store(c) ==
    /\ _cache' = c.cache
    /\ _access_order' = c.order
    /\ _current_memory_usage' = c.usage

\* _remove_item without the pop from _access_order
_remove_item_OrderKept(c, key) ==
    IF HasKey(c.cache, key)
    THEN [cache |-> SelectSeq(c.cache, LAMBDA it : it.key # key),
          order |-> c.order,
          usage |-> c.usage - ItemOf(c.cache, key).size_bytes]
    ELSE c

_remove_item(c, key) ==
    IF HasKey(c.cache, key)
    THEN [cache |-> SelectSeq(c.cache, LAMBDA it : it.key # key),
          order |-> SelectSeq(c.order, LAMBDA k : k # key),
          usage |-> c.usage - ItemOf(c.cache, key).size_bytes]
    ELSE c

RECURSIVE RemoveEach(_, _)
RemoveEach(c, keys) ==
    IF keys = << >> THEN c
    ELSE RemoveEach(_remove_item(c, Head(keys)), Tail(keys))

ExpiredKeys(cache, current_time) ==
    KeysOf(SelectSeq(cache, LAMBDA it : is_expired(it, current_time)))

\* _choose_eviction_key with self.strategy = st
choose_eviction_key_for(st, c, current_time) ==
    IF c.cache = << >> THEN << >>
    ELSE CASE st = "lru" ->
                <<MinKey(c.cache, "last_accessed")>>
           [] st = "lfu" ->
                <<MinKey(c.cache, "access_count")>>
           [] st = "ttl" ->
                LET expired == SelectSeq(c.cache,
                                         LAMBDA it : is_expired(it, current_time))
                IN  IF expired # << >>
                    THEN <<MinKey(expired, "created_at")>>
                    ELSE <<MinKey(c.cache, "created_at")>>
           [] st = "fifo" ->
                <<MinKey(c.cache, "created_at")>>
           [] OTHER -> << >>

_choose_eviction_key(c, current_time) ==
    choose_eviction_key_for(strategy, c, current_time)

RECURSIVE _evict_if_needed_CountOnly(_, _)
_evict_if_needed_CountOnly(c, current_time) ==
    IF Len(c.cache) >= max_size /\ c.cache # << >>
    THEN _evict_if_needed_CountOnly(
             _remove_item(c, _choose_eviction_key(c, current_time)[1]), current_time)
    ELSE c

\* the while loop of _evict_if_needed with self.strategy = st; a falsy
\* key_to_evict leaves the cache as it is and the loop goes round again
RECURSIVE evict_if_needed_for(_, _, _)
evict_if_needed_for(st, c, current_time) ==
    IF Len(c.cache) >= max_size \/ c.usage >= max_memory_bytes
    THEN IF c.cache = << >> THEN c
         ELSE LET key_to_evict == choose_eviction_key_for(st, c, current_time)
              IN  IF TruthyKey(key_to_evict)
                  THEN evict_if_needed_for(st, _remove_item(c, key_to_evict[1]),
                                           current_time)
                  ELSE evict_if_needed_for(st, c, current_time)
    ELSE c

_evict_if_needed(c, current_time) == evict_if_needed_for(strategy, c, current_time)

_clean_expired_Never(c, check_time) == c

_clean_expired(c, check_time) == RemoveEach(c, ExpiredKeys(c.cache, check_time))

\* OrderedDict.move_to_end(key), for a key the OrderedDict holds
move_to_end(order, key) == Append(SelectSeq(order, LAMBDA k : k # key), key)

\* for each key: the value, time and stored ttl of its latest accepted set,
\* until that entry is evicted by a set, deleted or cleared
NotStored == [state |-> "gone"]
StoredBy(item) ==
    [state |-> "live", value |-> item.value, at |-> item.created_at, ttl |-> item.ttl]

Threads == {"t1", "t2"}
NoOwner == "none"
IdleThread == [pc |-> "idle"]

AdvancedCache(ms, mb, st, dt) ==
    /\ _lock = NoOwner
    /\ max_size = ms
    /\ max_memory_bytes = mb * BytesPerMB
    /\ strategy = st
    /\ default_ttl = dt
    /\ _cache = << >>
    /\ _access_order = << >>
    /\ _current_memory_usage = 0

\* A method called in the current state: c is the cache it leaves behind,
\* ret the value it returns (None is << >>), raised whether it raises.
Outcome(c, ret, raised) == [c |-> c, ret |-> ret, raised |-> raised]

\* get, lines 155-171: what follows the sweep, on the swept cache c1
get_after_clean(c1, key, current_time) ==
    IF ~HasKey(c1.cache, key)
    THEN Outcome(c1, << >>, FALSE)
    ELSE LET item == ItemOf(c1.cache, key)
         IN  IF is_expired(item, current_time)
             THEN Outcome(_remove_item(c1, key), << >>, FALSE)
             ELSE LET touched ==
                          [i \in 1..Len(c1.cache) |->
                              IF c1.cache[i].key = key
                              THEN [c1.cache[i] EXCEPT
                                       !.last_accessed = current_time,
                                       !.access_count = @ + 1]
                              ELSE c1.cache[i]]
                  IN  IF InOrder(c1.order, key)
                      THEN Outcome([c1 EXCEPT !.cache = touched,
                                              !.order = move_to_end(@, key)],
                                   <<item.value>>, FALSE)
                      ELSE \* move_to_end raises KeyError
                           Outcome([c1 EXCEPT !.cache = touched], << >>, TRUE)

get(key) == get_after_clean(_clean_expired(Cur, now), key, now)

\* set, lines 184-202: the cache once the new item is in, before
\* _evict_if_needed runs
Inserted(key, value, ttl) ==
    LET size_bytes == _calculate_size(value)
        c1 == IF HasKey(_cache, key) THEN _remove_item(Cur, key) ELSE Cur
        item == CacheItem(key, value, now, now, 1,
                          IF TruthyInt(ttl) THEN ttl ELSE default_ttl,
                          size_bytes)
    IN  [cache |-> Append(c1.cache, item),
         order |-> IF InOrder(c1.order, key) THEN c1.order
                   ELSE Append(c1.order, key),
         usage |-> c1.usage + size_bytes]

set_for_TtlSweeps(st, key, value, ttl) ==
    IF _calculate_size(value) > max_memory_bytes
    THEN Outcome(Cur, FALSE, FALSE)
    ELSE LET c2 == Inserted(key, value, ttl)
         IN  Outcome(evict_if_needed_for(
                         st, IF st = "ttl" THEN _clean_expired(c2, now) ELSE c2, now),
                     TRUE, FALSE)

\* set with self.strategy = st
set_for(st, key, value, ttl) ==
    IF _calculate_size(value) > max_memory_bytes
    THEN Outcome(Cur, FALSE, FALSE)
    ELSE Outcome(evict_if_needed_for(st, Inserted(key, value, ttl), now), TRUE, FALSE)

set(key, value, ttl) ==
    IF _calculate_size(value) > max_memory_bytes
    THEN Outcome(Cur, FALSE, FALSE)
    ELSE Outcome(_evict_if_needed(Inserted(key, value, ttl), now), TRUE, FALSE)

delete(key) ==
    IF HasKey(_cache, key)
    THEN Outcome(_remove_item(Cur, key), TRUE, FALSE)
    ELSE Outcome(Cur, FALSE, FALSE)

exists(key) ==
    LET current_time == now
        c1 == _clean_expired(Cur, current_time)
    IN  Outcome(c1,
                /\ HasKey(c1.cache, key)
                /\ ~is_expired(ItemOf(c1.cache, key), current_time),
                FALSE)

clear == Outcome([cache |-> << >>, order |-> << >>, usage |-> 0], << >>, FALSE)

keys ==
    LET current_time == now
        c1 == _clean_expired(Cur, current_time)
    IN  Outcome(c1, KeysOf(c1.cache), FALSE)

CacheConfigUnchanged == UNCHANGED <<max_size, max_memory_bytes, strategy, default_ttl>>

\* The calls as steps.  A call runs under self._lock from entry to return.
GetCall(key) ==
    /\ HasKey(_cache, key) => ItemOf(_cache, key).access_count < MaxAccessCount
    /\ Store(get(key).c)
    /\ CacheConfigUnchanged
    /\ UNCHANGED <<now, last_set>>
    /\ UNCHANGED besideCache
    /\ UNCHANGED threadVars

SetCall(key, value, ttl) ==
    LET out == set(key, value, ttl)
    IN  /\ Store(out.c)
        /\ last_set' =
              IF ~out.ret THEN last_set
              ELSE [k \in Keys |->
                      IF HasKey(out.c.cache, k)
                      THEN IF k = key THEN StoredBy(ItemOf(out.c.cache, k))
                           ELSE last_set[k]
                      ELSE IF k = key \/ HasKey(_cache, k) THEN NotStored
                           ELSE last_set[k]]
        /\ CacheConfigUnchanged
        /\ UNCHANGED now
        /\ UNCHANGED besideCache
        /\ UNCHANGED threadVars

DeleteCall(key) ==
    LET out == delete(key)
    IN  /\ Store(out.c)
        /\ last_set' = IF out.ret THEN [last_set EXCEPT ![key] = NotStored] ELSE last_set
        /\ CacheConfigUnchanged
        /\ UNCHANGED now
        /\ UNCHANGED besideCache
        /\ UNCHANGED threadVars

ExistsCall(key) ==
    /\ Store(exists(key).c)
    /\ CacheConfigUnchanged
    /\ UNCHANGED <<now, last_set>>
    /\ UNCHANGED besideCache
    /\ UNCHANGED threadVars

ClearCall ==
    /\ Store(clear.c)
    /\ last_set' = [k \in Keys |-> NotStored]
    /\ CacheConfigUnchanged
    /\ UNCHANGED now
    /\ UNCHANGED besideCache
    /\ UNCHANGED threadVars

KeysCall ==
    /\ Store(keys.c)
    /\ CacheConfigUnchanged
    /\ UNCHANGED <<now, last_set>>
    /\ UNCHANGED besideCache
    /\ UNCHANGED threadVars

\* one second passes
Tick ==
    /\ now < MaxTime
    /\ now' = now + 1
    /\ CacheConfigUnchanged
    /\ UNCHANGED <<_cache, _access_order, _current_memory_usage, last_set>>
    /\ UNCHANGED besideCache
    /\ UNCHANGED threadVars

InitCache ==
    /\ \E ms \in MaxSizeChoices, mb \in MemoryMbChoices, st \in Strategies,
          dt \in DefaultTtls : AdvancedCache(ms, mb, st, dt)
    /\ now = 0
    /\ last_set = [k \in Keys |-> NotStored]
    /\ threads = [t \in Threads |-> IdleThread]

\* a cache constructed with the defaults of __init__, never called
CacheAtRest ==
    /\ AdvancedCache(1000, 100, "lru", NoInt)
    /\ now = 0
    /\ last_set = [k \in Keys |-> NotStored]
    /\ threads = [t \in Threads |-> IdleThread]

NextCache ==
    \/ \E key \in Keys, value \in Values, ttl \in TtlArgs : SetCall(key, value, ttl)
    \/ \E key \in Keys : GetCall(key)
    \/ \E key \in Keys : DeleteCall(key)
    \/ \E key \in Keys : ExistsCall(key)
    \/ ClearCall
    \/ KeysCall
    \/ Tick

(***************************************************************************)
(* The completion chain as a whole.                                        *)
(***************************************************************************)
NextChain ==
    \/ \E p \in Prompts : StartGroq(p)
    \/ \E i \in 1..3 : GroqProvider(i)
    \/ GroqGemini
    \/ GroqRuleBased
    \/ GroqTopReturn
    \/ \E p \in Prompts, pg \in BOOLEAN, mr \in RetryChoices : StartLlm(p, pg, mr)
    \/ LlmBegin
    \/ LlmAfterPrimary
    \/ GeminiAttempt
    \/ LlmExcept
    \/ LlmAfterFallback
    \/ LlmTopReturn
    \/ \E text \in ExtractedTexts, q \in Questions, r \in RetrievalOutcomes, pg \in BOOLEAN :
          StartChat(text, q, r, pg)
    \/ ChatAfterLlm
    \/ ChatAfterFallback

vars == <<chainVars, cacheVars, ragVars>>

\* the completion chain on its own: the cache is not called
Init == InitChain /\ CacheAtRest /\ RagUnused

SpecChain == Init /\ [][NextChain]_vars

\* the cache on its own: no completion request is running
ChainUnused ==
    /\ cfg = [groq_client |-> FALSE, groq_client_2 |-> FALSE, groq_client_3 |-> FALSE,
              gemini |-> "nokey"]
    /\ hash_seed = 3
    /\ ChainAtRest

InitCacheOnly == ChainUnused /\ RagUnused /\ InitCache

SpecCache == InitCacheOnly /\ [][NextCache]_vars

(***************************************************************************)
(* The cache with three keys of small values and longer-lived entries:     *)
(* the states in which an eviction has several entries to choose from.     *)
(***************************************************************************)
MaxEvictTime == 3      \* seconds the clock runs for here
EvictKeys == {"k1", "k2", "k3"}
EvictValues == {TinyValue}
EvictTtls == {NoInt, SomeInt(1), SomeInt(2)}

EvictTick ==
    /\ now < MaxEvictTime
    /\ now' = now + 1
    /\ CacheConfigUnchanged
    /\ UNCHANGED <<_cache, _access_order, _current_memory_usage, last_set>>
    /\ UNCHANGED besideCache
    /\ UNCHANGED threadVars

InitEvict ==
    /\ ChainUnused
    /\ RagUnused
    /\ \E ms \in MaxSizeChoices, st \in Strategies : AdvancedCache(ms, 1, st, NoInt)
    /\ now = 0
    /\ last_set = [k \in Keys |-> NotStored]
    /\ threads = [t \in Threads |-> IdleThread]

NextEvict ==
    \/ \E key \in EvictKeys, value \in EvictValues, ttl \in EvictTtls :
          SetCall(key, value, ttl)
    \/ \E key \in EvictKeys : GetCall(key)
    \/ EvictTick

SpecEvict == InitEvict /\ [][NextEvict]_vars

NeedsEviction(c) == Len(c.cache) >= max_size \/ c.usage >= max_memory_bytes

(***************************************************************************)
(* The cache called from several threads.  A call enters its method,       *)
(* waits for self._lock, runs the body statement by statement and leaves   *)
(* the with block.  The clock does not move while a body runs.             *)
(***************************************************************************)
ThreadValues == {TinyValue, LargeValue, OversizeValue}
ThreadTtls == {NoInt, SomeInt(1)}
\* a cache that evicts by count and one that evicts by bytes only
ThreadCaches == {[max_size |-> 2, strategy |-> "lru"], [max_size |-> 3, strategy |-> "ttl"]}
CallOf(op, key, value, ttl) == [op |-> op, key |-> key, value |-> value, ttl |-> ttl]
Calls ==
    {CallOf("set", key, value, ttl) :
        key \in Keys, value \in ThreadValues, ttl \in ThreadTtls}
    \cup {CallOf(op, key, TinyValue, NoInt) : op \in {"get", "delete", "exists"}, key \in Keys}
    \cup {CallOf(op, "", TinyValue, NoInt) : op \in {"keys", "clear"}}

\* the first statement of each method body
FirstStep(op) ==
    CASE op = "set" -> "set_check"
      [] op = "get" -> "get_clean"
      [] op = "delete" -> "delete_body"
      [] op = "exists" -> "exists_clean"
      [] op = "keys" -> "keys_clean"
      [] op = "clear" -> "clear_cache"

\* the call run on its own, from the current state
CallAlone(call) ==
    CASE call.op = "set" -> set(call.key, call.value, call.ttl)
      [] call.op = "get" -> get(call.key)
      [] call.op = "delete" -> delete(call.key)
      [] call.op = "exists" -> exists(call.key)
      [] call.op = "keys" -> keys
      [] call.op = "clear" -> clear

LockAvailable_Always(t) == TRUE

\* threading.RLock: free, or held by the calling thread itself
LockAvailable(t) == _lock \in {NoOwner, t}

\* self._cache[key] = item; self._access_order[key] = True; usage += size
AddItem(c, item) ==
    [cache |-> IF HasKey(c.cache, item.key)
               THEN [i \in 1..Len(c.cache) |->
                        IF c.cache[i].key = item.key THEN item ELSE c.cache[i]]
               ELSE Append(c.cache, item),
     order |-> IF InOrder(c.order, item.key) THEN c.order
               ELSE Append(c.order, item.key),
     usage |-> c.usage + item.size_bytes]

At(t, label) == threads[t].pc = label
Goto(t, label) == threads' = [threads EXCEPT ![t].pc = label]
Return(t, ret) == threads' = [threads EXCEPT ![t].pc = "release", ![t].ret = ret]
ThreadFrame ==
    /\ CacheConfigUnchanged
    /\ UNCHANGED <<now, last_set>>
    /\ UNCHANGED besideCache
CacheUntouched == UNCHANGED <<_cache, _access_order, _current_memory_usage>>

\* the call reaches "with self._lock:"; its arguments play no part until
\* the lock is taken
Enter(t) ==
    /\ At(t, "idle")
    /\ Goto(t, "with_lock")
    /\ CacheUntouched
    /\ UNCHANGED _lock
    /\ ThreadFrame

Acquire(t, call) ==
    /\ At(t, "with_lock")
    /\ LockAvailable(t)
    /\ (call.op = "get" /\ HasKey(_cache, call.key)) =>
           ItemOf(_cache, call.key).access_count < MaxAccessCount
    /\ threads' = [threads EXCEPT ![t] =
                      [pc |-> FirstStep(call.op), call |-> call,
                       alone |-> CallAlone(call), ret |-> << >>]]
    /\ _lock' = t
    /\ CacheUntouched
    /\ ThreadFrame

Release(t) ==
    /\ At(t, "release")
    /\ _lock' = NoOwner
    /\ threads' = [threads EXCEPT ![t] = IdleThread]
    /\ CacheUntouched
    /\ ThreadFrame

SetCheck(t) ==
    /\ At(t, "set_check")
    /\ IF _calculate_size(threads[t].call.value) > max_memory_bytes
       THEN Return(t, FALSE)
       ELSE Goto(t, "set_remove")
    /\ CacheUntouched
    /\ UNCHANGED _lock
    /\ ThreadFrame

SetRemove(t) ==
    /\ At(t, "set_remove")
    /\ Store(_remove_item(Cur, threads[t].call.key))
    /\ Goto(t, "set_insert")
    /\ UNCHANGED _lock
    /\ ThreadFrame

SetInsert(t) ==
    /\ At(t, "set_insert")
    /\ LET call == threads[t].call
           item == CacheItem(call.key, call.value, now, now, 1,
                             IF TruthyInt(call.ttl) THEN call.ttl ELSE default_ttl,
                             _calculate_size(call.value))
       IN  Store(AddItem(Cur, item))
    /\ Goto(t, "set_evict")
    /\ UNCHANGED _lock
    /\ ThreadFrame

\* one round of the while loop of _evict_if_needed, or its exit
SetEvict(t) ==
    /\ At(t, "set_evict")
    /\ IF NeedsEviction(Cur) /\ _cache # << >>
       THEN LET key_to_evict == _choose_eviction_key(Cur, now)
            IN  /\ Store(IF TruthyKey(key_to_evict)
                         THEN _remove_item(Cur, key_to_evict[1]) ELSE Cur)
                /\ UNCHANGED threads
       ELSE /\ Return(t, TRUE)
            /\ CacheUntouched
    /\ UNCHANGED _lock
    /\ ThreadFrame

GetClean(t) ==
    /\ At(t, "get_clean")
    /\ Store(_clean_expired(Cur, now))
    /\ Goto(t, "get_lookup")
    /\ UNCHANGED _lock
    /\ ThreadFrame

GetLookup(t) ==
    /\ At(t, "get_lookup")
    /\ LET out == get_after_clean(Cur, threads[t].call.key, now)
       IN  /\ Store(out.c)
           /\ Return(t, out.ret)
    /\ UNCHANGED _lock
    /\ ThreadFrame

DeleteBody(t) ==
    /\ At(t, "delete_body")
    /\ LET out == delete(threads[t].call.key)
       IN  /\ Store(out.c)
           /\ Return(t, out.ret)
    /\ UNCHANGED _lock
    /\ ThreadFrame

ExistsClean(t) ==
    /\ At(t, "exists_clean")
    /\ Store(_clean_expired(Cur, now))
    /\ Goto(t, "exists_answer")
    /\ UNCHANGED _lock
    /\ ThreadFrame

ExistsAnswer(t) ==
    /\ At(t, "exists_answer")
    /\ Return(t, /\ HasKey(_cache, threads[t].call.key)
                 /\ ~is_expired(ItemOf(_cache, threads[t].call.key), now))
    /\ CacheUntouched
    /\ UNCHANGED _lock
    /\ ThreadFrame

KeysClean(t) ==
    /\ At(t, "keys_clean")
    /\ Store(_clean_expired(Cur, now))
    /\ Goto(t, "keys_answer")
    /\ UNCHANGED _lock
    /\ ThreadFrame

KeysAnswer(t) ==
    /\ At(t, "keys_answer")
    /\ Return(t, KeysOf(_cache))
    /\ CacheUntouched
    /\ UNCHANGED _lock
    /\ ThreadFrame

ClearCache(t) ==
    /\ At(t, "clear_cache")
    /\ _cache' = << >>
    /\ Goto(t, "clear_order")
    /\ UNCHANGED <<_access_order, _current_memory_usage, _lock>>
    /\ ThreadFrame

ClearOrder(t) ==
    /\ At(t, "clear_order")
    /\ _access_order' = << >>
    /\ Goto(t, "clear_usage")
    /\ UNCHANGED <<_cache, _current_memory_usage, _lock>>
    /\ ThreadFrame

ClearUsage(t) ==
    /\ At(t, "clear_usage")
    /\ _current_memory_usage' = 0
    /\ Return(t, << >>)
    /\ UNCHANGED <<_cache, _access_order, _lock>>
    /\ ThreadFrame

NoneInside == \A t \in Threads : threads[t].pc \in {"idle", "with_lock"}

ThreadTick ==
    /\ NoneInside
    /\ now < MaxTime
    /\ now' = now + 1
    /\ CacheConfigUnchanged
    /\ CacheUntouched
    /\ UNCHANGED <<last_set, threadVars>>
    /\ UNCHANGED besideCache

InitThreads ==
    /\ ChainUnused
    /\ RagUnused
    /\ \E made \in ThreadCaches : AdvancedCache(made.max_size, 1, made.strategy, NoInt)
    /\ now = 0
    /\ last_set = [k \in Keys |-> NotStored]
    /\ threads = [t \in Threads |-> IdleThread]

NextThreads ==
    \/ \E t \in Threads : Enter(t)
    \/ \E t \in Threads, call \in Calls : Acquire(t, call)
    \/ \E t \in Threads : Release(t)
    \/ \E t \in Threads : SetCheck(t)
    \/ \E t \in Threads : SetRemove(t)
    \/ \E t \in Threads : SetInsert(t)
    \/ \E t \in Threads : SetEvict(t)
    \/ \E t \in Threads : GetClean(t)
    \/ \E t \in Threads : GetLookup(t)
    \/ \E t \in Threads : DeleteBody(t)
    \/ \E t \in Threads : ExistsClean(t)
    \/ \E t \in Threads : ExistsAnswer(t)
    \/ \E t \in Threads : KeysClean(t)
    \/ \E t \in Threads : KeysAnswer(t)
    \/ \E t \in Threads : ClearCache(t)
    \/ \E t \in Threads : ClearOrder(t)
    \/ \E t \in Threads : ClearUsage(t)
    \/ ThreadTick

SpecThreads == InitThreads /\ [][NextThreads]_vars

(***************************************************************************)
(* rag.chunk_texts, one loop round at a time.  A Python list is held as    *)
(* its runs of equal items, so that a list of ten thousand equal strings   *)
(* is one run.                                                             *)
(***************************************************************************)
MaxChunks == 10000
MaxChunkSize == 4      \* largest chunk_size argument explored
MaxOverlap == 4        \* largest overlap argument explored

\* sep.join(parts[a-1:b])
RECURSIVE JoinRange(_, _, _, _)
JoinRange(sep, parts, a, b) ==
    IF a > b THEN ""
    ELSE IF a = b THEN parts[a]
    ELSE LET m == (a + b) \div 2
         IN  JoinRange(sep, parts, a, m) \o sep \o JoinRange(sep, parts, m + 1, b)

Join(sep, parts) == JoinRange(sep, parts, 1, Len(parts))

IsSpaceAt(s, p) == Ch(s, p) \in Whitespace
WordStartsAt(s, p) == ~IsSpaceAt(s, p) /\ (p = 1 \/ IsSpaceAt(s, p - 1))

\* position of the last character of the word that holds position p
RECURSIVE WordEnd(_, _)
WordEnd(s, p) == IF p < Len(s) /\ ~IsSpaceAt(s, p + 1) THEN WordEnd(s, p + 1) ELSE p

\* the words of s that start at positions a..b, in order
RECURSIVE WordsIn(_, _, _)
WordsIn(s, a, b) ==
    IF a > b THEN << >>
    ELSE IF a = b
         THEN IF WordStartsAt(s, a) THEN <<SubSeq(s, a, WordEnd(s, a))>> ELSE << >>
    ELSE LET m == (a + b) \div 2
         IN  WordsIn(s, a, m) \o WordsIn(s, m + 1, b)

\* str.split() without arguments
Split(s) == WordsIn(s, 1, Len(s))

Min(a, b) == IF a < b THEN a ELSE b
Max(a, b) == IF a > b THEN a ELSE b

\* Python lists by runs: <<[item, times], ...>>, no two neighbouring runs
\* holding the same item
Run(item, times) == [item |-> item, times |-> times]

\* list.extend([item] * times)
ExtendRun(list, item, times) ==
    IF times <= 0 THEN list
    ELSE IF list # << >> /\ list[Len(list)].item = item
         THEN [list EXCEPT ![Len(list)].times = @ + times]
         ELSE Append(list, Run(item, times))

\* list.append(item)
ListAppend(list, item) == ExtendRun(list, item, 1)

\* list.extend(items)
RECURSIVE ExtendSeq(_, _, _)
ExtendSeq(list, items, k) ==
    IF k > Len(items) THEN list
    ELSE ExtendSeq(ListAppend(list, items[k]), items, k + 1)

\* list.extend(items * times)
RECURSIVE ExtendTimes(_, _, _)
ExtendTimes(list, items, times) ==
    IF times <= 0 \/ items = << >> THEN list
    ELSE IF Len(items) = 1 THEN ExtendRun(list, items[1], times)
    ELSE ExtendTimes(ExtendSeq(list, items, 1), items, times - 1)

ListOf(items) == ExtendSeq(<< >>, items, 1)

\* len(list)
RECURSIVE LenFrom(_, _)
LenFrom(list, r) == IF r > Len(list) THEN 0 ELSE list[r].times + LenFrom(list, r + 1)

ListLen(list) == LenFrom(list, 1)

\* list[k - 1]
RECURSIVE ItemFrom(_, _, _)
ItemFrom(list, r, k) ==
    IF k <= list[r].times THEN list[r].item ELSE ItemFrom(list, r + 1, k - list[r].times)

\* list[i:j] for 0 <= i and j <= len(list), item by item
Slice(list, i, j) == [k \in 1..(j - i) |-> ItemFrom(list, 1, i + k)]

\* " ".join(texts).split(): the separator is white space, so these are
\* the words of each text in turn
RECURSIVE WordsFrom(_, _)
WordsFrom(texts, r) ==
    IF r = 0 THEN << >>
    ELSE ExtendTimes(WordsFrom(texts, r - 1), Split(texts[r].item), texts[r].times)

JoinedWords(texts) == WordsFrom(texts, Len(texts))

step_of_NoOverlap(chunk_size, overlap) == Max(1, chunk_size)

step_of_Unclamped(chunk_size, overlap) == chunk_size - overlap

\* step = max(1, chunk_size - overlap)
step_of(chunk_size, overlap) == Max(1, chunk_size - overlap)

\* texts passed to chunk_texts
NumberWords == <<"one", "two", "three", "four", "five", "six", "seven", "eight",
                 "nine", "ten">>
CountingTexts ==
    {ListOf(<<Join(" ", SubSeq(NumberWords, 1, n))>>) : n \in 0..Len(NumberWords)}
OtherTexts ==
    {ListOf(<< >>),
     ListOf(<<"alpha beta alpha beta gamma">>),
     ListOf(<<"  claim \t form\n", "", "signed">>)}
\* a document just long enough for the chunk limit to cut it short
LongTexts == <<Run("w", MaxChunks + 2)>>

\* " ".join(texts).split() of each input
WordsOf == [texts \in CountingTexts \cup OtherTexts \cup {LongTexts} |->
               JoinedWords(texts)]

ChunkCalls ==
    [texts : CountingTexts \cup OtherTexts, chunk_size : 0..MaxChunkSize,
     overlap : 0..MaxOverlap]
    \cup {[texts |-> LongTexts, chunk_size |-> 1, overlap |-> 0]}

InitChunk ==
    /\ ChainUnused
    /\ CacheAtRest
    /\ DedupUnused
    /\ EmbedUnused
    /\ StoreUnused
    /\ ServiceUnused
    /\ \E call \in ChunkCalls :
          chunk_run = [pc |-> "call", texts |-> call.texts,
                       chunk_size |-> call.chunk_size, overlap |-> call.overlap,
                       words |-> << >>, chunks |-> << >>, i |-> 0]

\* words = " ".join(texts).split(); chunks = []; i = 0
ChunkSplit ==
    /\ chunk_run.pc = "call"
    /\ chunk_run' = [chunk_run EXCEPT !.pc = "while",
                                      !.words = WordsOf[chunk_run.texts],
                                      !.chunks = << >>,
                                      !.i = 0]
    /\ UNCHANGED besideChunk

\* one round of the while loop, with its break
ChunkAppend ==
    /\ chunk_run.pc = "while"
    /\ chunk_run.i < ListLen(chunk_run.words)
    /\ LET i == chunk_run.i
           words == chunk_run.words
           j == Min(i + chunk_run.chunk_size, ListLen(words))
           chunks == ListAppend(chunk_run.chunks, Join(" ", Slice(words, i, j)))
           step == step_of(chunk_run.chunk_size, chunk_run.overlap)
       IN  chunk_run' = [chunk_run EXCEPT
                            !.chunks = chunks,
                            !.i = i + step,
                            !.pc = IF ListLen(chunks) > MaxChunks THEN "return"
                                   ELSE "while"]
    /\ UNCHANGED besideChunk

\* the loop condition fails: return chunks
ChunkReturn ==
    /\ chunk_run.pc = "while"
    /\ ~(chunk_run.i < ListLen(chunk_run.words))
    /\ chunk_run' = [chunk_run EXCEPT !.pc = "return"]
    /\ UNCHANGED besideChunk

NextChunk == ChunkSplit \/ ChunkAppend \/ ChunkReturn

SpecChunk == InitChunk /\ [][NextChunk]_vars

\* a call that has started keeps running
SpecChunkRuns == SpecChunk /\ WF_vars(NextChunk)

(***************************************************************************)
(* content_filters.deduplicate_chunks.                                     *)
(***************************************************************************)
MaxDedupLen == 3       \* longest list of chunks explored

\* str.strip()
RECURSIVE LStrip(_)
LStrip(s) == IF Len(s) > 0 /\ Ch(s, 1) \in Whitespace THEN LStrip(SubSeq(s, 2, Len(s))) ELSE s

RECURSIVE RStrip(_)
RStrip(s) ==
    IF Len(s) > 0 /\ Ch(s, Len(s)) \in Whitespace THEN RStrip(SubSeq(s, 1, Len(s) - 1)) ELSE s

Strip(s) == LStrip(RStrip(s))

\* hash(text) under the interpreter's salt.  Two different strings are
\* taken to have different hashes: collisions of the 64-bit hash are left
\* out.
PyHash(text, seed) == <<seed, text>>

chunk_hash_CaseKept(chunk, seed) == PyHash(Strip(chunk), seed)

\* chunk_hash = hash(chunk.strip().lower())
chunk_hash(chunk, seed) == PyHash(Lower(Strip(chunk)), seed)

\* the for loop from its k-th chunk on
RECURSIVE DedupFrom(_, _, _, _, _)
DedupFrom(chunks, seed, k, unique_chunks, seen_hashes) ==
    IF k > Len(chunks) THEN unique_chunks
    ELSE IF chunk_hash(chunks[k], seed) \notin seen_hashes
         THEN DedupFrom(chunks, seed, k + 1, Append(unique_chunks, chunks[k]),
                        seen_hashes \cup {chunk_hash(chunks[k], seed)})
         ELSE DedupFrom(chunks, seed, k + 1, unique_chunks, seen_hashes)

deduplicate_chunks(chunks, seed) ==
    IF chunks = << >> THEN chunks ELSE DedupFrom(chunks, seed, 1, << >>, {})

DedupChunks == {"alpha beta", "Alpha Beta", " alpha beta\n", "alpha  beta", "beta alpha", ""}
RECURSIVE ListsUpTo(_, _)
ListsUpTo(items, n) ==
    IF n = 0 THEN {<< >>}
    ELSE LET shorter == ListsUpTo(items, n - 1)
         IN  shorter \cup {Append(l, x) : l \in {m \in shorter : Len(m) = n - 1}, x \in items}

\* the chunks of "alpha beta alpha beta gamma" with size 2 and overlap 1
AlphaBetaChunks == <<"alpha beta", "beta alpha", "alpha beta", "beta gamma">>
DedupInputs == ListsUpTo(DedupChunks, MaxDedupLen) \cup {AlphaBetaChunks}

InitDedup ==
    /\ cfg = [groq_client |-> FALSE, groq_client_2 |-> FALSE, groq_client_3 |-> FALSE,
              gemini |-> "nokey"]
    /\ hash_seed \in HashSeeds
    /\ ChainAtRest
    /\ CacheAtRest
    /\ ChunkUnused
    /\ EmbedUnused
    /\ StoreUnused
    /\ ServiceUnused
    /\ \E chunks \in DedupInputs :
          dedup_run = [pc |-> "call", chunks |-> chunks, once |-> << >>, twice |-> << >>]

\* once = deduplicate_chunks(chunks)
DedupCall ==
    /\ dedup_run.pc = "call"
    /\ dedup_run' = [dedup_run EXCEPT
                        !.pc = "again",
                        !.once = deduplicate_chunks(dedup_run.chunks, hash_seed)]
    /\ UNCHANGED besideDedup

\* twice = deduplicate_chunks(once)
DedupAgain ==
    /\ dedup_run.pc = "again"
    /\ dedup_run' = [dedup_run EXCEPT
                        !.pc = "done",
                        !.twice = deduplicate_chunks(dedup_run.once, hash_seed)]
    /\ UNCHANGED besideDedup

NextDedup == DedupCall \/ DedupAgain

SpecDedup == InitDedup /\ [][NextDedup]_vars

(***************************************************************************)
(* embeddings.embed_texts_with_cache: the cached wrapper, the manager's    *)
(* embed_texts and the provider behind them, over the "embeddings" cache.  *)
(***************************************************************************)
EmbedTtl == 7200
MaxEmbedCalls == 3     \* calls of embed_texts_with_cache in one run
MaxEmbedHours == 3     \* hours the clock runs for
SecondsPerHour == 60 * 60
BytesPerVector == 768 * 8
ExpectedEmbedDim == 768     \* rag.EXPECTED_EMBED_DIM
OpenAIDimension == 1536     \* OpenAIEmbeddingProvider.dimension

\* hexdigest of a digest of s.  Two different strings are taken to have
\* different digests.
Md5Hex(s) == "md5(" \o s \o ")"
Sha256Hex16(s) == "sha256(" \o s \o ")"

Quoted(texts) == [k \in 1..Len(texts) |-> "\"" \o texts[k] \o "\""]

\* cached.wrapper, default key generation, for embed_texts_with_cache(texts)
CachedKey(texts) ==
    Md5Hex("{\"args\": [[" \o Join(", ", Quoted(texts))
           \o "]], \"func\": \"embed_texts_with_cache\", \"kwargs\": {}}")

_generate_cache_key(texts, provider_name) ==
    LET text_content == Join("|", texts)
        content_hash == Sha256Hex16(provider_name \o ":" \o text_content)
    IN  "embed:" \o provider_name \o ":" \o content_hash

\* content_filters.get_content_fingerprint
get_content_fingerprint(text) == Sha256Hex16(Join(" ", Split(Lower(Strip(text)))))

\* the vectors a provider returns for texts, each of dim floats, as a cached
\* value
EmbeddingsOf(texts, dim) ==
    [unit |-> "f", times |-> 1 + Len(texts) * BytesPerVector, of |-> texts,
     dim |-> dim]

\* what provider_instance.embed_texts can do: answer with vectors of the
\* expected length or of the provider's own, or raise (ExternalAPIError for
\* a rate limit of the service as for any other failure of it)
EmbedDims == {ExpectedEmbedDim, OpenAIDimension}
ProviderAnswers == {[kind |-> "embeddings", dim |-> d] : d \in EmbedDims}
ProviderFailures == {[kind |-> "rate_limit"], [kind |-> "error"]}
ProviderOutcomes == ProviderAnswers \cup ProviderFailures

EmbedBatches ==
    {<< >>, <<"claim form">>, <<"Claim  Form ">>, <<"policy">>, <<"claim form", "policy">>,
     <<"claim form|policy">>}
DefaultProviders == {<< >>, <<"openai">>}

\* caching.get_embedding_cache
EmbeddingCache == AdvancedCache(5000, 200, "lru", SomeInt(SecondsPerHour * 24))

InitEmbed ==
    /\ ChainUnused
    /\ ChunkUnused
    /\ DedupUnused
    /\ StoreUnused
    /\ ServiceUnused
    /\ EmbeddingCache
    /\ now = 0
    /\ last_set = [k \in Keys |-> NotStored]
    /\ threads = [t \in Threads |-> IdleThread]
    /\ \E dp \in DefaultProviders :
          embed_run = [pc |-> "idle", default_provider |-> dp, texts |-> << >>,
                       result |-> << >>, raised |-> FALSE, calls |-> 0,
                       provider_calls |-> << >>, embedded |-> {},
                       attempts |-> << >>]

EmbedReturns(ret) ==
    embed_run' = [embed_run EXCEPT !.pc = "idle", !.result = ret, !.raised = FALSE]
EmbedRaises ==
    embed_run' = [embed_run EXCEPT !.pc = "idle", !.result = << >>, !.raised = TRUE]

\* cached.wrapper up to the cache lookup
EmbedCall(texts) ==
    /\ embed_run.pc = "idle"
    /\ embed_run.calls < MaxEmbedCalls
    /\ LET out == get(CachedKey(texts))
       IN  /\ Store(out.c)
           /\ embed_run' = [embed_run EXCEPT
                               !.calls = @ + 1,
                               !.texts = texts,
                               !.raised = FALSE,
                               !.attempts = << >>,
                               !.result = out.ret,
                               !.pc = IF out.ret # << >> THEN "idle" ELSE "embed_texts"]
    /\ UNCHANGED now
    /\ UNCHANGED besideEmbed

\* EmbeddingManager.embed_texts up to the cache lookup
ManagerLookup ==
    /\ embed_run.pc = "embed_texts"
    /\ IF embed_run.texts = << >>
       THEN /\ embed_run' = [embed_run EXCEPT !.pc = "cache_result",
                                              !.result = <<EmbeddingsOf(<< >>, 0)>>]
            /\ UNCHANGED <<_cache, _access_order, _current_memory_usage>>
       ELSE IF embed_run.default_provider = << >>
       THEN /\ EmbedRaises
            /\ UNCHANGED <<_cache, _access_order, _current_memory_usage>>
       ELSE LET cache_key ==
                    _generate_cache_key(embed_run.texts, embed_run.default_provider[1])
                out == get(cache_key)
            IN  /\ Store(out.c)
                /\ embed_run' = [embed_run EXCEPT
                                    !.result = out.ret,
                                    !.pc = IF out.ret # << >> THEN "cache_result"
                                           ELSE "provider"]
    /\ UNCHANGED now
    /\ UNCHANGED besideEmbed

\* provider_instance.embed_texts(texts): it answers or raises, and what it
\* raises leaves embed_texts and the wrappers around it
ProviderEmbeds(outcome) ==
    /\ embed_run.pc = "provider"
    /\ LET answers == outcome.kind = "embeddings"
       IN  embed_run' = [embed_run EXCEPT
                            !.provider_calls = Append(@, embed_run.texts),
                            !.attempts = Append(@, outcome.kind),
                            !.result = IF answers
                                       THEN <<EmbeddingsOf(embed_run.texts, outcome.dim)>>
                                       ELSE << >>,
                            !.raised = ~answers,
                            !.pc = IF answers THEN "manager_set" ELSE "idle"]
    /\ UNCHANGED <<now, _cache, _access_order, _current_memory_usage>>
    /\ UNCHANGED besideEmbed

\* self.cache.set(cache_key, embeddings, ttl=7200); return embeddings
ManagerSet ==
    /\ embed_run.pc = "manager_set"
    /\ LET cache_key ==
               _generate_cache_key(embed_run.texts, embed_run.default_provider[1])
       IN  Store(set(cache_key, embed_run.result[1], SomeInt(EmbedTtl)).c)
    /\ embed_run' = [embed_run EXCEPT
                        !.pc = "cache_result",
                        !.embedded = @ \cup {[texts |-> embed_run.texts, at |-> now]}]
    /\ UNCHANGED now
    /\ UNCHANGED besideEmbed

\* cached.wrapper: cache.set(cache_key, result, ttl); return result
WrapperSet ==
    /\ embed_run.pc = "cache_result"
    /\ Store(set(CachedKey(embed_run.texts), embed_run.result[1], SomeInt(EmbedTtl)).c)
    /\ EmbedReturns(embed_run.result)
    /\ UNCHANGED now
    /\ UNCHANGED besideEmbed

EmbedTick ==
    /\ embed_run.pc = "idle"
    /\ now < MaxEmbedHours * SecondsPerHour
    /\ now' = now + SecondsPerHour
    /\ UNCHANGED <<embed_run, _cache, _access_order, _current_memory_usage>>
    /\ UNCHANGED besideEmbed

NextEmbed ==
    \/ \E texts \in EmbedBatches : EmbedCall(texts)
    \/ ManagerLookup
    \/ \E outcome \in ProviderOutcomes : ProviderEmbeds(outcome)
    \/ ManagerSet
    \/ WrapperSet
    \/ EmbedTick

SpecEmbed == InitEmbed /\ [][NextEmbed]_vars

(***************************************************************************)
(* content_filters.filter_boilerplate_content and should_embed_chunk, and  *)
(* rag.index_documents against a store whose inserts can fail.             *)
(*                                                                         *)
(* The documents explored have no line break, so the four patterns that    *)
(* begin with \n (page numbers, headers, copyright lines) match nowhere;   *)
(* the phrase patterns below and the white-space clean-up are modelled.    *)
(***************************************************************************)
min_length == 50
max_length == 8000
DefaultChunkSize == 500
DefaultOverlap == 50

\* the patterns  w1\s+w2...\s+wn.*?(?:\.|$)  and  IRDAI.*?Registration.*?(?:\.|$)
\* of patterns_to_remove, in their order, written in lower case (re.IGNORECASE)
PhrasePatterns ==
    << [words |-> <<"this", "document", "is", "confidential">>, later |-> ""],
       [words |-> <<"please", "read", "this", "policy", "carefully">>, later |-> ""],
       [words |-> <<"this", "policy", "is", "issued", "subject", "to">>, later |-> ""],
       [words |-> <<"irdai">>, later |-> "registration"],
       [words |-> <<"insurance", "is", "subject", "to">>, later |-> ""] >>

\* last index of the white space that starts at p
RECURSIVE SpaceEnd(_, _)
SpaceEnd(s, p) == IF IsSpaceAt(s, p + 1) THEN SpaceEnd(s, p + 1) ELSE p

\* index of the last character of the match of  words[k]\s+words[k+1]...
\* that starts at i, 0 when there is none
RECURSIVE MatchWordsFrom(_, _, _, _)
MatchWordsFrom(s, i, words, k) ==
    LET e == i + Len(words[k]) - 1
    IN  IF e > Len(s) \/ Lower(SubSeq(s, i, e)) # words[k] THEN 0
        ELSE IF k = Len(words) THEN e
        ELSE IF ~IsSpaceAt(s, e + 1) THEN 0
        ELSE MatchWordsFrom(s, SpaceEnd(s, e + 1) + 1, words, k + 1)

\* where  .*?(?:\.|$)  ends when it starts after index e: at the first full
\* stop, or at the end of the line
SentenceEnd(s, e) ==
    LET stops == {j \in (e + 1)..Len(s) : Ch(s, j) = "."}
    IN  IF stops = {} THEN Len(s)
        ELSE CHOOSE j \in stops : \A other \in stops : j <= other

\* where  .*?word  ends when it starts after index e, 0 when word does not
\* follow
LaterWordEnd(s, e, word) ==
    LET starts == {j \in (e + 1)..(Len(s) - Len(word) + 1) :
                      Lower(SubSeq(s, j, j + Len(word) - 1)) = word}
    IN  IF starts = {} THEN 0
        ELSE (CHOOSE j \in starts : \A other \in starts : j <= other) + Len(word) - 1

\* index of the last character of the match of pattern that starts at i, 0
\* when there is none
MatchEnd(s, i, pattern) ==
    LET e == MatchWordsFrom(s, i, pattern.words, 1)
        l == IF e = 0 \/ pattern.later = "" THEN e ELSE LaterWordEnd(s, e, pattern.later)
    IN  IF l = 0 THEN 0 ELSE SentenceEnd(s, l)

\* re.sub(pattern, ' ', s) from index i on: the text up to the leftmost
\* match, a space for the match, and the same for what follows the match
RECURSIVE SubFrom(_, _, _)
SubFrom(s, i, pattern) ==
    LET starts == {j \in i..Len(s) : MatchEnd(s, j, pattern) # 0}
    IN  IF starts = {} THEN SubSeq(s, i, Len(s))
        ELSE LET j == CHOOSE first \in starts : \A other \in starts : first <= other
             IN  SubSeq(s, i, j - 1) \o " " \o SubFrom(s, MatchEnd(s, j, pattern) + 1, pattern)

RECURSIVE SubAll(_, _)
SubAll(s, k) ==
    IF k > Len(PhrasePatterns) THEN s
    ELSE SubAll(SubFrom(s, 1, PhrasePatterns[k]), k + 1)

\* runs of white space become one space, then strip()
CleanWhitespace(s) == Join(" ", Split(s))

filter_boilerplate_content(text) ==
    IF text = "" THEN text ELSE CleanWhitespace(SubAll(text, 1))

IsAlnum(c) == c \in (DOMAIN LowerOf) \cup (DOMAIN UpperOf) \cup Digits

should_embed_chunk(chunk) ==
    LET counted == {i \in 1..Len(chunk) : IsAlnum(Ch(chunk, i)) \/ IsSpaceAt(chunk, i)}
        words == Split(Lower(chunk))
        distinct == {words[k] : k \in 1..Len(words)}
    IN  /\ chunk # ""
        /\ Len(Strip(chunk)) >= min_length
        /\ Len(chunk) <= max_length
        \* alphanumeric_ratio >= 0.7
        /\ 10 * Cardinality(counted) >= 7 * Len(chunk)
        \* at least 30% unique words
        /\ 10 * Cardinality(distinct) >= 3 * Len(words)

\* chunk_texts as a function of its arguments: the loop from i on
RECURSIVE ChunksFrom(_, _, _, _, _)
ChunksFrom(words, i, chunk_size, overlap, chunks) ==
    IF i < Len(words)
    THEN LET j == Min(i + chunk_size, Len(words))
             appended == Append(chunks, Join(" ", SubSeq(words, i + 1, j)))
         IN  IF Len(appended) > MaxChunks THEN appended
             ELSE ChunksFrom(words, i + step_of(chunk_size, overlap), chunk_size, overlap,
                             appended)
    ELSE chunks

chunk_texts(texts, chunk_size, overlap) ==
    ChunksFrom(Split(Join(" ", texts)), 0, chunk_size, overlap, << >>)

\* [chunk for chunk in unique_chunks if should_embed_chunk(chunk)]
RECURSIVE QualityFrom(_, _)
QualityFrom(unique_chunks, k) ==
    IF k > Len(unique_chunks) THEN << >>
    ELSE (IF should_embed_chunk(unique_chunks[k]) THEN <<unique_chunks[k]>> ELSE << >>)
         \o QualityFrom(unique_chunks, k + 1)

\* steps 2 to 4 alone, the boilerplate filter left out
quality_chunks_of_Unfiltered(text, chunk_size, overlap, seed) ==
    QualityFrom(deduplicate_chunks(chunk_texts(<<text>>, chunk_size, overlap), seed), 1)

\* steps 1 to 4 of index_documents
quality_chunks_of(text, chunk_size, overlap, seed) ==
    LET filtered_text == filter_boilerplate_content(text)
        chunks == chunk_texts(<<filtered_text>>, chunk_size, overlap)
        unique_chunks == deduplicate_chunks(chunks, seed)
    IN  QualityFrom(unique_chunks, 1)

RoomRent == "The insurer covers hospitalization expenses including room rent, nursing"
ClaimsFiled == "charges and surgeon fees. Claims must be filed within"
ThirtyDays == "thirty days of discharge with original bills and reports."
PolicyText ==
    "Please read this policy carefully.  " \o RoomRent \o " " \o ClaimsFiled \o " "
    \o ThirtyDays
RepeatingText ==
    "IRDAI Reg. No. 123, Registration renewed. " \o RoomRent \o " " \o ThirtyDays \o " "
    \o "THE INSURER COVERS HOSPITALIZATION EXPENSES INCLUDING ROOM RENT, NURSING"
BoilerplateText ==
    "Please read this policy carefully before signing. This Document is  confidential"
SymbolsText == "#1 // #2 // #3 // #4 // #5 // #6 // #7 // #8 // #9 // #10 // #11 // #12"

IndexCall(text, document_id, chunk_size, overlap) ==
    [text |-> text, document_id |-> document_id, chunk_size |-> chunk_size,
     overlap |-> overlap]

\* the calls of index_documents explored: the two of tests/test_rag.py, a
\* policy in three chunks and in one, a text with a repeated chunk, and
\* texts that are boilerplate or symbols only
IndexCalls ==
    { IndexCall("This is a test document for indexing.", "doc123", 3, 1),
      IndexCall("This is a test document.", "doc123", DefaultChunkSize, DefaultOverlap),
      IndexCall(PolicyText, "doc123", 9, 0),
      IndexCall(PolicyText, "doc123", DefaultChunkSize, DefaultOverlap),
      IndexCall(RepeatingText, "doc456", 9, 0),
      IndexCall(BoilerplateText, "doc456", DefaultChunkSize, DefaultOverlap),
      IndexCall(SymbolsText, "doc456", DefaultChunkSize, DefaultOverlap) }

\* steps 1 to 4 for the calls explored
QualityChunksOf ==
    [call \in IndexCalls |->
        quality_chunks_of(call.text, call.chunk_size, call.overlap, 3)]

MaxIndexCalls == 2     \* calls of index_documents in one run

\* an embedding of text with dim floats
Vector(text, dim) == [of |-> text, dim |-> dim]
NoneTimes(n) == [k \in 1..n |-> << >>]
VectorsOf(texts, dim) == [k \in 1..Len(texts) |-> <<Vector(texts[k], dim)>>]

\* what embed_texts_with_cache(quality_chunks) can do: raise, return one
\* vector per chunk (of the expected length or of the provider's), or return
\* the cached result of the batch with the same '|'.join, one vector short
EmbedResults(quality_chunks) ==
    {[kind |-> "raises"]}
    \cup {[kind |-> "returns", embs |-> VectorsOf(quality_chunks, d)] : d \in EmbedDims}
    \cup (IF Len(quality_chunks) < 2 THEN {}
          ELSE {[kind |-> "returns",
                 embs |-> VectorsOf(<<quality_chunks[1] \o "|" \o quality_chunks[2]>>
                                    \o SubSeq(quality_chunks, 3, Len(quality_chunks)),
                                    ExpectedEmbedDim)]})

\* the results of the embedding call for the calls explored
EmbedOutcomes == UNION {EmbedResults(QualityChunksOf[call]) : call \in IndexCalls}

\* try: embs = embed_texts_with_cache(...) except Exception: embs = [None] * n
TryEmbed_NoExcept(outcome, n) ==
    IF outcome.kind = "raises" THEN [raised |-> TRUE, embs |-> << >>]
    ELSE [raised |-> FALSE, embs |-> outcome.embs]

TryEmbed(outcome, n) ==
    IF outcome.kind = "raises" THEN [raised |-> FALSE, embs |-> NoneTimes(n)]
    ELSE [raised |-> FALSE, embs |-> outcome.embs]

\* "Normalize embeddings list length"
Normalized(embs, n) ==
    IF Len(embs) < n THEN embs \o NoneTimes(n - Len(embs)) ELSE embs

\* emb for the chunk at idx (zero-based) after the dimension check
emb_at(embs, idx) ==
    LET emb == IF idx < Len(embs) THEN embs[idx + 1] ELSE << >>
    IN  IF emb # << >> /\ ExpectedEmbedDim # 0 /\ emb[1].dim # ExpectedEmbedDim
        THEN << >> ELSE emb

\* the row index_documents inserts; embedding is << >> when the row has no
\* "embedding" key
RowOf(document_id, idx, chunk, emb) ==
    [policy_id |-> document_id, chunk_index |-> idx, content |-> chunk, embedding |-> emb]

\* what service_client.table("document_chunks").insert(row).execute() can
\* do: store the row, answer with an error, raise, or raise an error that
\* names a foreign key constraint
InsertAnswers == {"stored", "error", "exception", "foreign_key"}

\* the loop goes on after this answer
GoesOn(answer) == answer # "foreign_key"

IdleIndex ==
    [pc |-> "idle", calls |-> 0, call |-> << >>, quality_chunks |-> << >>,
     embed |-> "none", embs |-> << >>, idx |-> 0, inserts |-> << >>,
     result |-> << >>, raised |-> FALSE, rows_before |-> 0]

InitIndex ==
    /\ ChainUnused
    /\ CacheAtRest
    /\ ChunkUnused
    /\ DedupUnused
    /\ EmbedUnused
    /\ RetrieveUnused
    /\ ServiceUnused
    /\ index_run = IdleIndex
    /\ document_chunks = << >>

\* index_documents(text, document_id, chunk_size, overlap): steps 1 to 4
IndexBegin(call) ==
    /\ index_run.pc = "idle"
    /\ index_run.calls < MaxIndexCalls
    /\ index_run' = [IdleIndex EXCEPT
                        !.pc = "embed",
                        !.calls = index_run.calls + 1,
                        !.call = <<call>>,
                        !.quality_chunks = QualityChunksOf[call],
                        !.rows_before = Len(document_chunks)]
    /\ UNCHANGED document_chunks
    /\ UNCHANGED besideIndex

\* step 5: the embedding call and the normalisation of its result; with no
\* chunk to insert the call returns
IndexEmbed(outcome) ==
    /\ index_run.pc = "embed"
    /\ outcome \in EmbedResults(index_run.quality_chunks)
    /\ LET n == Len(index_run.quality_chunks)
           tried == TryEmbed(outcome, n)
       IN  index_run' = [index_run EXCEPT
                            !.embed = outcome.kind,
                            !.raised = tried.raised,
                            !.embs = Normalized(tried.embs, n),
                            !.pc = IF tried.raised \/ n = 0 THEN "idle" ELSE "insert"]
    /\ UNCHANGED document_chunks
    /\ UNCHANGED besideIndex

\* one round of the for loop: the row of chunk idx is inserted and the store
\* answers; after the last round, or a break, the call returns
IndexInsert(answer) ==
    /\ index_run.pc = "insert"
    /\ LET idx == index_run.idx
           chunk == index_run.quality_chunks[idx + 1]
           emb == emb_at(index_run.embs, idx)
           row == RowOf(index_run.call[1].document_id, idx, chunk, emb)
           last == idx + 1 = Len(index_run.quality_chunks)
       IN  /\ document_chunks' = IF answer = "stored" THEN Append(document_chunks, row)
                                 ELSE document_chunks
           /\ index_run' = [index_run EXCEPT
                               !.inserts = Append(@, answer),
                               !.result = IF answer = "stored"
                                          THEN Append(@, [chunk |-> chunk, emb |-> emb])
                                          ELSE @,
                               !.idx = idx + 1,
                               !.pc = IF last \/ ~GoesOn(answer) THEN "idle" ELSE "insert"]
    /\ UNCHANGED besideIndex

NextIndex ==
    \/ \E call \in IndexCalls : IndexBegin(call)
    \/ \E outcome \in EmbedOutcomes : IndexEmbed(outcome)
    \/ \E answer \in InsertAnswers : IndexInsert(answer)

SpecIndex == InitIndex /\ [][NextIndex]_vars

(***************************************************************************)
(* rag.retrieve_top_k.  The store's vector_search_document_chunks function *)
(* is not part of the sources; VectorSearch states what the specification  *)
(* says of the Vector Store Gateway: search(queryEmbedding, limitCount,    *)
(* optionalDocumentFilter) -> rows{id, content, score} ordered by          *)
(* similarity descending.                                                  *)
(***************************************************************************)
DefaultK == 5

Queries == {"what is covered", "when to file a claim"}
KChoices == {0, 1, 2, DefaultK}
PolicyIds == {<< >>, <<"doc123">>, <<"doc789">>}

\* the table after the policy and the repeating text were indexed, the
\* policy's second chunk without an embedding
IndexedRows ==
    << RowOf("doc123", 0, RoomRent, <<Vector(RoomRent, ExpectedEmbedDim)>>),
       RowOf("doc123", 1, ClaimsFiled, << >>),
       RowOf("doc123", 2, ThirtyDays, <<Vector(ThirtyDays, ExpectedEmbedDim)>>),
       RowOf("doc456", 0, RoomRent, <<Vector(RoomRent, ExpectedEmbedDim)>>),
       RowOf("doc456", 1, ThirtyDays, <<Vector(ThirtyDays, ExpectedEmbedDim)>>) >>
StoreTables == {<< >>, IndexedRows}

\* similarity of a chunk to a query, in hundredths
ScoreOf(query, content) ==
    IF query = "what is covered"
    THEN (IF content = RoomRent THEN 90 ELSE 40)
    ELSE (IF content = ThirtyDays THEN 80 ELSE IF content = ClaimsFiled THEN 85 ELSE 30)

\* params of the RPC
ParamsOf_LimitDropped(q_emb, k, policy_id) ==
    [query_embedding |-> q_emb, limit_count |-> k + 1, filter_policy_id |-> policy_id]

ParamsOf(q_emb, k, policy_id) ==
    [query_embedding |-> q_emb, limit_count |-> k, filter_policy_id |-> policy_id]

\* the answers of the store's search: the limit_count most similar rows
\* that have an embedding (of the document asked for, when one is), ordered
\* by similarity descending, rows of equal similarity in either order
VectorSearch(table, params) ==
    LET query == params.query_embedding.of
        matching == {r \in 1..Len(table) :
                        /\ table[r].embedding # << >>
                        /\ \/ params.filter_policy_id = << >>
                           \/ table[r].policy_id = params.filter_policy_id[1]}
        score(r) == ScoreOf(query, table[r].content)
        n == Min(params.limit_count, Cardinality(matching))
    IN  { [i \in 1..n |-> [id |-> order[i], content |-> table[order[i]].content,
                           score |-> score(order[i])]] :
             order \in { o \in [1..n -> matching] :
                            /\ \A i, j \in 1..n : i < j =>
                                   (o[i] # o[j] /\ score(o[i]) >= score(o[j]))
                            /\ \A r \in matching :
                                   (\A i \in 1..n : o[i] # r) =>
                                       \A i \in 1..n : score(r) <= score(o[i]) } }

\* [(r.get("id"), r.get("content"), r.get("score")) for r in rows]
ResultsOf(rows) == [i \in 1..Len(rows) |-> <<rows[i].id, rows[i].content, rows[i].score>>]

\* what embed_texts_with_cache([query]) can do: raise, return the query's
\* vector, or (as the mocks of tests/test_rag.py have it) return []
QueryEmbedResults(query) ==
    {[kind |-> "raises"], [kind |-> "returns", embs |-> << >>],
     [kind |-> "returns", embs |-> VectorsOf(<<query>>, ExpectedEmbedDim)]}
QueryEmbedOutcomes == UNION {QueryEmbedResults(query) : query \in Queries}

IdleRetrieve ==
    [pc |-> "idle", query |-> "", k |-> 0, policy_id |-> << >>, embed |-> "none",
     q_embs |-> << >>, rpc |-> << >>, rows |-> << >>, result |-> << >>,
     raised |-> FALSE, returned |-> FALSE]

InitRetrieve ==
    /\ ChainUnused
    /\ CacheAtRest
    /\ ChunkUnused
    /\ DedupUnused
    /\ EmbedUnused
    /\ ServiceUnused
    /\ index_run = [pc |-> "unused"]
    /\ document_chunks \in StoreTables
    /\ retrieve_run = IdleRetrieve

\* retrieve_top_k(query, k, policy_id) is called
RetrieveBegin(query, k, policy_id) ==
    /\ retrieve_run.pc = "idle"
    /\ retrieve_run' = [IdleRetrieve EXCEPT
                           !.pc = "embed", !.query = query, !.k = k,
                           !.policy_id = policy_id]
    /\ UNCHANGED besideRetrieve

\* q_embs = embed_texts_with_cache([query]); if not q_embs: return []
RetrieveEmbed(outcome) ==
    /\ retrieve_run.pc = "embed"
    /\ outcome \in QueryEmbedResults(retrieve_run.query)
    /\ retrieve_run' =
          IF outcome.kind = "raises"
          THEN [retrieve_run EXCEPT !.pc = "idle", !.embed = "raises", !.raised = TRUE,
                                    !.returned = TRUE]
          ELSE IF outcome.embs = << >>
          THEN [retrieve_run EXCEPT !.pc = "idle", !.embed = "empty", !.result = << >>,
                                    !.returned = TRUE]
          ELSE [retrieve_run EXCEPT !.pc = "search", !.embed = "vector",
                                    !.q_embs = outcome.embs]
    /\ UNCHANGED besideRetrieve

\* the RPC answers with rows, which are returned as tuples
RetrieveSearch ==
    /\ retrieve_run.pc = "search"
    /\ LET q_emb == retrieve_run.q_embs[1][1]
           params == ParamsOf(q_emb, retrieve_run.k, retrieve_run.policy_id)
       IN  \E rows \in VectorSearch(document_chunks, params) :
               retrieve_run' = [retrieve_run EXCEPT
                                   !.pc = "idle",
                                   !.rpc = <<params>>,
                                   !.rows = rows,
                                   !.result = ResultsOf(rows),
                                   !.returned = TRUE]
    /\ UNCHANGED besideRetrieve

\* the RPC raises: except Exception: return []
RetrieveSearchFails ==
    /\ retrieve_run.pc = "search"
    /\ LET q_emb == retrieve_run.q_embs[1][1]
           params == ParamsOf(q_emb, retrieve_run.k, retrieve_run.policy_id)
       IN  retrieve_run' = [retrieve_run EXCEPT
                               !.pc = "idle",
                               !.rpc = <<params>>,
                               !.rows = << >>,
                               !.result = << >>,
                               !.embed = "rpc_failed",
                               !.returned = TRUE]
    /\ UNCHANGED besideRetrieve

NextRetrieve ==
    \/ \E query \in Queries, k \in KChoices, policy_id \in PolicyIds :
          RetrieveBegin(query, k, policy_id)
    \/ \E outcome \in QueryEmbedOutcomes : RetrieveEmbed(outcome)
    \/ RetrieveSearch
    \/ RetrieveSearchFails

SpecRetrieve == InitRetrieve /\ [][NextRetrieve]_vars

(***************************************************************************)
(* Properties of the completion provider chain.                            *)
(***************************************************************************)
Done == pc = "done"
LastCall == calls[Len(calls)]

\* the result is the text of one of the two offline responders
FromFallback ==
    /\ IsStr(result)
    /\ result.text \in {PatternFallbackOf[prompt]} \cup {RuleBasedOf[prompt, sd] : sd \in HashSeeds}

\* the Gemini service is reached through two handles
Provider(b) == IF b \in {"gemini_flash", "gemini_pro"} THEN "gemini" ELSE b

ConfiguredProviders ==
    {GroqBackend(i) : i \in {j \in 1..3 : GroqClientConfigured(j)}}
    \cup (IF cfg.gemini = "sdk" THEN {"gemini"} ELSE {})

InvokedProviders == {Provider(calls[i].backend) : i \in 1..Len(calls)}

ChainOrder ==
    IF entry = "llm" /\ ~prefer_groq
    THEN <<"gemini", "groq1", "groq2", "groq3">>
    ELSE <<"groq1", "groq2", "groq3", "gemini">>

Position(b) == CHOOSE k \in 1..4 : ChainOrder[k] = Provider(b)

NoUsableCall == \A i \in 1..Len(calls) : calls[i].outcome # "usable"

\* C1: llm.make_llm_request always returns a non-empty string (an accepted
\* backend response or the offline fallback), never None, whatever the
\* backends do.
C1_AlwaysReturnsText ==
    (Done /\ entry = "llm") => (IsStr(result) /\ Len(result.text) > 0)

\* C2: through main.chat, a question about a policy with at least 50
\* characters of extracted text always gets a non-empty answer that is not a
\* "service unavailable" message.
ServiceUnavailableMessage(text) ==
    \/ Contains(Lower(text), "service unavailable")
    \/ Contains(Lower(text), "service temporarily unavailable")

C2_ChatAnswerNeverEmpty ==
    (Done /\ entry = "chat" /\ Len(chat_in.extracted_text) >= 50)
        => (IsStr(result) /\ Len(result.text) > 0 /\ ~ServiceUnavailableMessage(result.text))

\* C3: within one request the configured backends are attempted in the fixed
\* order with none skipped, and the offline fallback is returned only after
\* every configured backend was attempted and none was accepted.
C3_FallbackOnlyAfterAllBackends ==
    (entry \in {"llm", "groq"}) =>
        /\ \A i, j \in 1..Len(calls) :
              i < j => Position(calls[i].backend) <= Position(calls[j].backend)
        /\ \A j \in 1..Len(calls) : \A b \in ConfiguredProviders :
              Position(b) < Position(calls[j].backend)
                  => \E i \in 1..(j - 1) : Provider(calls[i].backend) = b
        /\ (Done /\ FromFallback) => (ConfiguredProviders \subseteq InvokedProviders /\ NoUsableCall)

\* C4: first success wins - once a backend has answered with a usable
\* response, no further backend is invoked in that request and the request
\* returns exactly that response.
C4_FirstSuccessWins ==
    /\ \A i \in 1..Len(calls) : calls[i].outcome = "usable" => i = Len(calls)
    /\ (Done /\ Len(calls) > 0 /\ LastCall.outcome = "usable")
           => result = Str(GoodText(LastCall.backend))

\* a request answered by the second Groq credential while a third credential
\* and Gemini were configured and left alone
C4_Witness ==
    /\ Done /\ entry = "llm" /\ prefer_groq
    /\ cfg.groq_client /\ cfg.groq_client_2 /\ cfg.groq_client_3 /\ cfg.gemini = "sdk"
    /\ Len(calls) = 2
    /\ LastCall.backend = "groq2" /\ LastCall.outcome = "usable"
    /\ result = Str(GoodText("groq2"))

\* C5: when the first backend A of the chain is rate-limited, it is retried
\* after a backoff delay; rate-limited twice and then successful, the result
\* is A's response after exactly 2 retries and the next backend is never
\* invoked.
C5_RateLimitedFirstBackendIsRetried ==
    (entry \in {"llm", "groq"} /\ max_retries >= 3) =>
        /\ (Len(calls) >= 2 /\ calls[1].outcome = "rate_limit")
              => (calls[2].backend = calls[1].backend /\ Len(sleeps) >= 1)
        /\ (Done /\ Len(calls) >= 3
              /\ calls[1].outcome = "rate_limit" /\ calls[2].outcome = "rate_limit"
              /\ calls[3].backend = calls[1].backend /\ calls[3].outcome = "usable")
              => (Len(calls) = 3 /\ Len(sleeps) = 2 /\ result = Str(GoodText(calls[1].backend)))

\* C6: an error that is not a rate limit is never retried on the same
\* backend: after a hard error of a backend handle that handle is not
\* invoked again in the request, and when the next backend then succeeds the
\* result is that backend's response.
C6_HardErrorNeverRetried ==
    /\ \A i, j \in 1..Len(calls) :
          (i < j /\ calls[i].outcome = "hard_error") => calls[j].backend # calls[i].backend
    /\ (Done /\ Len(calls) >= 2 /\ calls[Len(calls) - 1].outcome = "hard_error"
             /\ LastCall.outcome = "usable")
          => result = Str(GoodText(LastCall.backend))

\* C7: when every backend fails and the offline fallback answers, its text
\* depends on the prompt alone (the same prompt gives the same text in every
\* interpreter process) and contains the category label of the question
\* (premium, claim, exclusion).
CategoryLabels == {"premium", "claim", "exclusion"}

C7_DeterministicLabelledFallback ==
    (Done /\ entry \in {"llm", "groq"} /\ NoUsableCall /\ FromFallback) =>
        /\ \A sd \in HashSeeds :
              result.text \in {PatternFallbackOf[prompt], RuleBasedOf[prompt, sd]}
        /\ \A label \in CategoryLabels :
              Contains(Lower(prompt), label) => Contains(result.text, label)

(***************************************************************************)
(* Properties of the cache.                                                *)
(***************************************************************************)
\* more than the stored ttl has passed since the set recorded in g
Elapsed(g) == g.ttl # NoInt /\ now > g.at + g.ttl[1]
ElapsedKey(k) == last_set[k].state = "live" /\ Elapsed(last_set[k])
Listed(list, k) == \E i \in 1..Len(list) : list[i] = k

RECURSIVE SumSizes(_)
SumSizes(cache) ==
    IF cache = << >> THEN 0 ELSE Head(cache).size_bytes + SumSizes(Tail(cache))

\* C8: after an accepted set(k, v), a get(k) returns v for as long as the
\* entry has not been evicted, deleted, overwritten or expired, and once
\* more than its ttl has passed since that set a get(k) returns absent,
\* whatever happened or did not happen in between.
C8_SetThenGet ==
    \A k \in Keys :
        last_set[k].state = "live" =>
            LET g == last_set[k]
                out == get(k)
            IN  /\ ~out.raised
                /\ out.ret = IF Elapsed(g) THEN << >> ELSE <<g.value>>

\* an entry with a ttl, read back by a get a second after its set and
\* still answering with the value set
C8_Witness ==
    \E k \in Keys :
        /\ last_set[k].state = "live"
        /\ last_set[k].ttl # NoInt
        /\ now > last_set[k].at
        /\ ~Elapsed(last_set[k])
        /\ HasKey(_cache, k)
        /\ ItemOf(_cache, k).access_count >= 2
        /\ get(k).ret = <<last_set[k].value>>

\* C9: after every operation the cache holds at most max_size entries
\* whose sizes add up to at most the byte budget, and a set of a value
\* whose size alone exceeds the budget returns False, raises nothing and
\* stores nothing.
C9_BoundedCache ==
    /\ Len(_cache) <= max_size
    /\ SumSizes(_cache) <= max_memory_bytes
    /\ \A key \in Keys, value \in Values, ttl \in TtlArgs :
          _calculate_size(value) > max_memory_bytes =>
              set(key, value, ttl) = Outcome(Cur, FALSE, FALSE)

\* two entries stored, more than half the budget in use, and an oversize
\* set turned away
C9_Witness ==
    /\ Len(_cache) = 2
    /\ 2 * SumSizes(_cache) > max_memory_bytes
    /\ \A i \in 1..Len(_cache) : _cache[i].value # OversizeValue
    /\ ~set("k1", OversizeValue, NoInt).ret

\* C10: a get never returns the value of an entry whose ttl has elapsed,
\* exists never reports its key and keys never lists it, although nothing
\* has swept the entry since it expired.
C10_ExpiredNeverObserved ==
    \A k \in Keys :
        ElapsedKey(k) =>
            /\ get(k).ret = << >>
            /\ ~exists(k).ret
            /\ ~Listed(keys.ret, k)

\* an expired entry still held in _cache, beside a live one that keys lists
C10_Witness ==
    \E k \in Keys :
        /\ ElapsedKey(k)
        /\ HasKey(_cache, k)
        /\ keys.ret # << >>
        /\ ~Listed(keys.ret, k)

(***************************************************************************)
(* Properties of the eviction choice.                                      *)
(***************************************************************************)
ExpiresAt(item) == item.created_at + item.ttl[1]
SomeExpired(c, t) == \E i \in 1..Len(c.cache) : is_expired(c.cache[i], t)

\* the entry the strategy is said to remove from c at time t
VictimAsStated(c, t, victim) ==
    CASE strategy = "lru" ->
            \A i \in 1..Len(c.cache) : victim.last_accessed <= c.cache[i].last_accessed
      [] strategy = "lfu" ->
            \A i \in 1..Len(c.cache) : victim.access_count <= c.cache[i].access_count
      [] strategy = "fifo" ->
            \A i \in 1..Len(c.cache) : victim.created_at <= c.cache[i].created_at
      [] strategy = "ttl" ->
            IF SomeExpired(c, t)
            THEN /\ victim.ttl # NoInt
                 /\ \A i \in 1..Len(c.cache) :
                       c.cache[i].ttl # NoInt => ExpiresAt(victim) <= ExpiresAt(c.cache[i])
            ELSE \A i \in 1..Len(c.cache) : victim.created_at <= c.cache[i].created_at

\* every removal of one run of _evict_if_needed on c is the stated one
RECURSIVE EvictionsAsStated(_, _)
EvictionsAsStated(c, t) ==
    IF NeedsEviction(c) /\ c.cache # << >>
    THEN LET key_to_evict == _choose_eviction_key(c, t)
         IN  /\ TruthyKey(key_to_evict)
             /\ VictimAsStated(c, t, ItemOf(c.cache, key_to_evict[1]))
             /\ EvictionsAsStated(_remove_item(c, key_to_evict[1]), t)
    ELSE TRUE

\* C11: whenever a set triggers an eviction, the entry removed is the least
\* recently accessed one under LRU, the one with the smallest access count
\* under LFU, the earliest created one under FIFO, and under TTL the
\* earliest-expiring one, or the earliest created one if none has expired.
C11_EvictionFollowsStrategy ==
    \A key \in EvictKeys, value \in EvictValues, ttl \in EvictTtls :
        EvictionsAsStated(Inserted(key, value, ttl), now)

(***************************************************************************)
(* The strategy as a selection function.                                   *)
(***************************************************************************)
\* set(key, value, ttl), called now, would remove an entry
SetEvicts(key, value, ttl) ==
    /\ _calculate_size(value) <= max_memory_bytes
    /\ NeedsEviction(Inserted(key, value, ttl))

\* C12: whichever of the four strategies is in use, a get(k) returns absent
\* or the value of the latest accepted set(k, .), the count and byte bounds
\* hold, and a call during which nothing is evicted has the same result
\* (return value and cache left behind) under all four strategies; get and
\* delete never read the strategy, a set reads it only to pick a victim.
C12_StrategyOnlyPicksVictims ==
    /\ \A k \in Keys :
          \/ get(k).ret = << >>
          \/ /\ last_set[k].state = "live"
             /\ get(k).ret = <<last_set[k].value>>
    /\ Len(_cache) <= max_size
    /\ SumSizes(_cache) <= max_memory_bytes
    /\ \A key \in Keys, value \in Values, ttl \in TtlArgs :
          ~SetEvicts(key, value, ttl) =>
              LET as_configured == set(key, value, ttl)
              IN  \A st \in Strategies : set_for(st, key, value, ttl) = as_configured

\* a state with an entry that has been read, in which one set would evict
\* nothing and another would evict different entries under two strategies
C12_Witness ==
    /\ \E i \in 1..Len(_cache) : _cache[i].access_count >= 2
    /\ \E key \in Keys, value \in Values, ttl \in TtlArgs :
          /\ _calculate_size(value) <= max_memory_bytes
          /\ ~SetEvicts(key, value, ttl)
          /\ set(key, value, ttl).c # Cur
    /\ \E st1, st2 \in Strategies, key \in Keys, value \in Values, ttl \in TtlArgs :
          /\ SetEvicts(key, value, ttl)
          /\ set_for(st1, key, value, ttl) # set_for(st2, key, value, ttl)

(***************************************************************************)
(* Properties of the cache under concurrent callers.                       *)
(***************************************************************************)
\* C13: concurrent calls behave as if run one at a time, in the order in
\* which they took the lock: a call that has finished its body returns
\* what it would have returned, and leaves the cache it would have left,
\* had it run alone from the state in which it took the lock; and
\* whenever no call is inside a body the count and byte bounds hold and
\* the byte counter is the sum of the stored sizes.
C13_CallsSerialized ==
    /\ \A t \in Threads :
          threads[t].pc = "release" =>
              /\ Cur = threads[t].alone.c
              /\ threads[t].ret = threads[t].alone.ret
    /\ NoneInside =>
          /\ Len(_cache) <= max_size
          /\ SumSizes(_cache) <= max_memory_bytes
          /\ _current_memory_usage = SumSizes(_cache)

\* one thread is inside set with its item inserted and an eviction due,
\* while the other has called the cache and waits for the lock
C13_Witness ==
    \E t1, t2 \in Threads :
        /\ t1 # t2
        /\ _lock = t1
        /\ threads[t1].pc = "set_evict"
        /\ NeedsEviction(Cur)
        /\ threads[t2].pc = "with_lock"

(***************************************************************************)
(* Properties of chunk_texts.                                              *)
(***************************************************************************)
ChunkReturned == chunk_run.pc = "return"
CutShort == ListLen(chunk_run.chunks) > MaxChunks
ChunkTokens == WordsOf[chunk_run.texts]

\* the windows of size tokens taken every step tokens, up to and including
\* the first window that reaches the last token
RECURSIVE StatedWindowsFrom(_, _, _, _)
StatedWindowsFrom(tokens, size, step, start) ==
    LET j == Min(start + size, ListLen(tokens))
    IN  <<Join(" ", Slice(tokens, start, j))>>
        \o (IF j = ListLen(tokens) THEN << >>
            ELSE StatedWindowsFrom(tokens, size, step, start + step))

StatedWindows(tokens, size, overlap) ==
    IF tokens = << >> THEN << >>
    ELSE ListOf(StatedWindowsFrom(tokens, size, Max(1, size - overlap), 0))

\* C14: chunk_texts returns exactly the windows of chunk_size consecutive
\* tokens whose starts are max(1, chunk_size - overlap) tokens apart, the
\* last chunk being the window that reaches the last token; ten tokens
\* with size 4 and overlap 1 give exactly three chunks, and "alpha beta
\* alpha beta gamma" with size 2 and overlap 1 gives exactly four.
C14_ChunksAreTheStatedWindows ==
    /\ (ChunkReturned /\ ~CutShort /\ chunk_run.chunk_size >= 1) =>
           chunk_run.chunks =
               StatedWindows(chunk_run.words, chunk_run.chunk_size, chunk_run.overlap)
    /\ ( /\ ChunkReturned
         /\ chunk_run.texts = ListOf(<<"one two three four five six seven eight nine ten">>)
         /\ chunk_run.chunk_size = 4
         /\ chunk_run.overlap = 1 ) =>
           chunk_run.chunks =
               ListOf(<<"one two three four", "four five six seven",
                        "seven eight nine ten">>)
    /\ ( /\ ChunkReturned
         /\ chunk_run.texts = ListOf(<<"alpha beta alpha beta gamma">>)
         /\ chunk_run.chunk_size = 2
         /\ chunk_run.overlap = 1 ) =>
           chunk_run.chunks =
               ListOf(<<"alpha beta", "beta alpha", "alpha beta", "beta gamma">>)

Take(seq, n) == SubSeq(seq, 1, Min(n, Len(seq)))

\* the tokens the reconstruction keeps of the first r runs of chunks: the
\* first keep tokens of every chunk but the last of the list, and the
\* whole last chunk
RECURSIVE RebuiltFrom(_, _, _)
RebuiltFrom(chunks, keep, r) ==
    IF r = 0 THEN << >>
    ELSE LET before == RebuiltFrom(chunks, keep, r - 1)
             kept == Take(Split(chunks[r].item), keep)
         IN  IF r < Len(chunks)
             THEN ExtendTimes(before, kept, chunks[r].times)
             ELSE ExtendSeq(ExtendTimes(before, kept, chunks[r].times - 1),
                            Split(chunks[r].item), 1)

Rebuilt(chunks, keep) == RebuiltFrom(chunks, keep, Len(chunks))

SizeAboveOverlap == chunk_run.chunk_size > chunk_run.overlap /\ chunk_run.overlap >= 0

\* C15 (as amended): for all size > overlap >= 0 and every input text,
\* chunk_texts terminates, and unless the chunk limit cut the call short
\* the original token sequence is rebuilt by concatenating the first
\* size - overlap tokens of every chunk but the last and the whole last
\* chunk.
C15_TerminatesAndRebuilds ==
    /\ [](( ChunkReturned /\ SizeAboveOverlap /\ ~CutShort ) =>
              Rebuilt(chunk_run.chunks, chunk_run.chunk_size - chunk_run.overlap)
                  = ChunkTokens)
    /\ (SizeAboveOverlap => <>ChunkReturned)

\* C15 (as stated): the same for every input text, cut short or not.
C15_RebuildsEveryInput ==
    /\ [](( ChunkReturned /\ SizeAboveOverlap ) =>
              Rebuilt(chunk_run.chunks, chunk_run.chunk_size - chunk_run.overlap)
                  = ChunkTokens)
    /\ (SizeAboveOverlap => <>ChunkReturned)

\* a call with overlapping windows has returned several chunks
C15_Witness ==
    /\ ChunkReturned
    /\ SizeAboveOverlap
    /\ chunk_run.overlap >= 1
    /\ ListLen(chunk_run.chunks) >= 3
    /\ ~CutShort

OverlapCoversSize == chunk_run.chunk_size >= 1 /\ chunk_run.overlap >= chunk_run.chunk_size
NoEmptyChunk == \A r \in 1..Len(chunk_run.chunks) : chunk_run.chunks[r].item # ""

\* C16: for every overlap >= chunk_size >= 1 and every input, chunk_texts
\* terminates; each chunk emitted moves the window start forward by at
\* least one token, and no chunk is empty.
C16_OverlapBeyondSizeStillAdvances ==
    /\ (OverlapCoversSize => <>ChunkReturned)
    /\ [][(OverlapCoversSize /\ chunk_run'.chunks # chunk_run.chunks) =>
              chunk_run'.i >= chunk_run.i + 1]_vars
    /\ [](OverlapCoversSize => NoEmptyChunk)

\* a call whose overlap exceeds its chunk size has returned several chunks
C16_Witness ==
    /\ ChunkReturned
    /\ chunk_run.chunk_size >= 1
    /\ chunk_run.overlap > chunk_run.chunk_size
    /\ ListLen(chunk_run.chunks) >= 3

\* C17: the number of chunks chunk_texts returns never exceeds the upper
\* bound of 10,000, whatever the input, chunk_size and overlap.
C17_AtMostMaxChunks == ChunkReturned => ListLen(chunk_run.chunks) <= MaxChunks

(***************************************************************************)
(* Properties of deduplicate_chunks.                                       *)
(***************************************************************************)
TrimLower(chunk) == Lower(Strip(chunk))
FirstOfItsKind(xs, k) == \A j \in 1..(k - 1) : TrimLower(xs[j]) # TrimLower(xs[k])

\* the chunks of xs from the k-th on that are the first of their kind
RECURSIVE FirstOccurrencesFrom(_, _)
FirstOccurrencesFrom(xs, k) ==
    IF k > Len(xs) THEN << >>
    ELSE (IF FirstOfItsKind(xs, k) THEN <<xs[k]>> ELSE << >>)
         \o FirstOccurrencesFrom(xs, k + 1)

Sent == embed_run.pc = "provider"
TextsOf(value) == {value.of[k] : k \in 1..Len(value.of)}

\* an unexpired cache entry holds the embedding of text
TextCached(text) ==
    \E n \in 1..Len(_cache) :
        /\ ~is_expired(_cache[n], now)
        /\ text \in TextsOf(_cache[n].value)

\* C19: the provider receives only the texts that missed the cache: a
\* text whose embedding is cached is never sent to the provider again,
\* also when it comes in a list with texts that are not cached.
C19_OnlyMissesSent ==
    Sent => \A k \in 1..Len(embed_run.texts) : ~TextCached(embed_run.texts[k])

Fingerprints(texts) == [k \in 1..Len(texts) |-> get_content_fingerprint(texts[k])]

\* C20: within the TTL, a second embed request whose texts have the
\* fingerprints of an earlier successfully embedded request (the same
\* text, or one differing in letter case or white space only) is served
\* from the cache: the provider is not called for it.
C20_SameFingerprintServedFromCache ==
    Sent => \A e \in embed_run.embedded :
                ~( /\ Fingerprints(e.texts) = Fingerprints(embed_run.texts)
                   /\ now - e.at <= EmbedTtl )

(***************************************************************************)
(* Properties of embed_texts_with_cache as its callers see it.             *)
(***************************************************************************)
\* a call of embed_texts_with_cache has ended
EmbedDone == embed_run.pc = "idle" /\ embed_run.calls > 0
ProviderCalled == embed_run.attempts # << >>
LastAttempt == embed_run.attempts[Len(embed_run.attempts)]

\* the call returned a list as long as its input
SameLength ==
    /\ embed_run.result # << >>
    /\ Len(embed_run.result[1].of) = Len(embed_run.texts)

\* C21: embed never raises because of a failing item or a provider error:
\* for every input list it returns a list of the same length in which each
\* item that could not be embedded is absent (None); when the provider keeps
\* failing with a rate-limit error, embedding ["test"] returns [None].
C21_EmbedNeverRaises ==
    (EmbedDone /\ ProviderCalled) => (~embed_run.raised /\ SameLength)

\* C22: after a rate-limit failure of the provider the same batch is sent
\* again (one rate-limit failure followed by a success takes exactly 2
\* provider calls and yields the embedding), up to a fixed cap; after any
\* other provider error nothing is sent again and the call returns with
\* every item of the batch absent.
C22_RateLimitRetriedOtherErrorsNot ==
    /\ (EmbedDone /\ ProviderCalled /\ embed_run.attempts[1] = "rate_limit")
          => Len(embed_run.attempts) >= 2
    /\ \A k \in 1..Len(embed_run.attempts) :
          embed_run.attempts[k] = "error" => k = Len(embed_run.attempts)
    /\ (EmbedDone /\ ProviderCalled /\ LastAttempt = "error") => ~embed_run.raised

\* C23: the list embed returns is parallel to its input: it has the length
\* of the input and its item i is the embedding of input item i, whether it
\* was computed by the provider or served from the cache, and whatever embed
\* calls came before.
C23_ResultParallelToInput ==
    (EmbedDone /\ ~embed_run.raised) =>
        /\ SameLength
        /\ \A i \in 1..Len(embed_run.texts) :
              embed_run.result[1].of[i] = embed_run.texts[i]

\* C24: a returned vector whose length differs from EXPECTED_DIM is
\* discarded: no such vector is kept in the embedding cache (and
\* index_documents persists no row with such an embedding).
C24_NoMalformedVectorKept ==
    \A n \in 1..Len(_cache) :
        Len(_cache[n].value.of) > 0 => _cache[n].value.dim = ExpectedEmbedDim

(***************************************************************************)
(* Properties of index_documents.                                          *)
(***************************************************************************)
\* a call of index_documents has ended
IndexDone == index_run.pc = "idle" /\ index_run.calls > 0
EveryInsertStored ==
    \A k \in 1..Len(index_run.inserts) : index_run.inserts[k] = "stored"
\* the rows the call has added to the table
RowsAdded == SubSeq(document_chunks, index_run.rows_before + 1, Len(document_chunks))

\* C25: when the embedding call raises, index_documents raises nothing,
\* still inserts the chunks that passed filtering, each without an
\* embedding, and returns those the store accepted: all of them when every
\* insert succeeds.
C25_EmbeddingFailureNeverAborts ==
    (IndexDone /\ index_run.embed = "raises") =>
        /\ ~index_run.raised
        /\ \A k \in 1..Len(RowsAdded) : RowsAdded[k].embedding = << >>
        /\ Len(index_run.result) = Len(RowsAdded)
        /\ \A k \in 1..Len(index_run.result) :
              /\ index_run.result[k].emb = << >>
              /\ index_run.result[k].chunk = RowsAdded[k].content
        /\ EveryInsertStored =>
              /\ Len(RowsAdded) = Len(index_run.quality_chunks)
              /\ \A k \in 1..Len(RowsAdded) :
                    RowsAdded[k].content = index_run.quality_chunks[k]

\* three chunks passed filtering, the embedding call raised, and the three
\* were stored and returned without embeddings
C25_Witness ==
    /\ IndexDone
    /\ index_run.embed = "raises"
    /\ Len(index_run.quality_chunks) = 3
    /\ EveryInsertStored
    /\ Len(index_run.result) = 3
    /\ Len(RowsAdded) = 3
    /\ \A k \in 1..3 : RowsAdded[k].embedding = << >>

\* C26: index_documents applied to a non-empty text, with every insert
\* succeeding, persists and returns at least one chunk, also for a short
\* document of five to eight words and whether or not embeddings are
\* available.
C26_NonEmptyTextGivesAChunk ==
    (IndexDone /\ index_run.call[1].text # "" /\ EveryInsertStored) =>
        /\ Len(index_run.result) >= 1
        /\ Len(RowsAdded) >= 1

\* C27: an insert that fails (an error answer or an exception of the store)
\* never ends the indexing of the document: every later chunk is still
\* attempted and, when its insert succeeds, persisted and returned.
C27_InsertFailureNeverAborts ==
    IndexDone =>
        /\ Len(index_run.inserts) = Len(index_run.quality_chunks)
        /\ \A k \in 1..Len(index_run.inserts) :
              index_run.inserts[k] = "stored" =>
                  /\ \E r \in 1..Len(RowsAdded) :
                        RowsAdded[r].content = index_run.quality_chunks[k]
                  /\ \E r \in 1..Len(index_run.result) :
                        index_run.result[r].chunk = index_run.quality_chunks[k]

\* C28: the rows of one document have pairwise distinct, zero-based
\* chunk_index values, one row per chunk, also after the same text was
\* indexed again.
C28_ChunkIndexUniquePerDocument ==
    /\ \A r \in 1..Len(document_chunks) : document_chunks[r].chunk_index >= 0
    /\ \A r1, r2 \in 1..Len(document_chunks) :
          (r1 # r2 /\ document_chunks[r1].policy_id = document_chunks[r2].policy_id)
              => document_chunks[r1].chunk_index # document_chunks[r2].chunk_index

(***************************************************************************)
(* Properties of retrieve_top_k.                                           *)
(***************************************************************************)
RetrieveDone == retrieve_run.pc = "idle" /\ retrieve_run.returned
Triple(row) == <<row.id, row.content, row.score>>

\* C29: retrieve_top_k never raises: when the query fails to embed (the
\* embedding call raises or yields nothing), when the store is empty and
\* when the vector search fails, it returns an empty list; and when the
\* query could not be embedded the store is not called.
C29_RetrieveNeverRaises ==
    RetrieveDone =>
        /\ ~retrieve_run.raised
        /\ retrieve_run.embed \in {"raises", "empty"} =>
              (retrieve_run.result = << >> /\ retrieve_run.rpc = << >>)
        /\ retrieve_run.embed = "rpc_failed" => retrieve_run.result = << >>
        /\ document_chunks = << >> => retrieve_run.result = << >>

\* C30: retrieve_top_k(query, k) returns at most k results, ordered by
\* non-increasing score, each the (id, content, score) of one row of the
\* store's answer.
C30_AtMostKBestFirst ==
    (RetrieveDone /\ ~retrieve_run.raised) =>
        /\ Len(retrieve_run.result) <= retrieve_run.k
        /\ \A i, j \in 1..Len(retrieve_run.result) :
              i < j => retrieve_run.result[i][3] >= retrieve_run.result[j][3]
        /\ \A i \in 1..Len(retrieve_run.result) :
              \E r \in 1..Len(retrieve_run.rows) :
                  retrieve_run.result[i] = Triple(retrieve_run.rows[r])
        /\ \A i \in 1..Len(retrieve_run.result) :
              \E r \in 1..Len(document_chunks) :
                  /\ retrieve_run.result[i][1] = r
                  /\ retrieve_run.result[i][2] = document_chunks[r].content

\* two results for k = 2 out of a store with more rows that match, the
\* better one first
C30_Witness ==
    /\ RetrieveDone
    /\ retrieve_run.k = 2
    /\ Len(retrieve_run.result) = 2
    /\ retrieve_run.result[1][3] > retrieve_run.result[2][3]
    /\ Cardinality({r \in 1..Len(document_chunks) :
                       document_chunks[r].embedding # << >>}) > 2

(***************************************************************************)
(* The stages of index_documents (rag.py, steps 1 to 5 and the insert).    *)
(***************************************************************************)
\* what steps 1 to 3 hand on, for the calls explored
StagesOf ==
    [call \in IndexCalls |->
        LET filtered_text == filter_boilerplate_content(call.text)
            chunks == chunk_texts(<<filtered_text>>, call.chunk_size, call.overlap)
            unique_chunks == deduplicate_chunks(chunks, 3)
        IN  [filtered_text |-> filtered_text, chunks |-> chunks,
             unique_chunks |-> unique_chunks,
             accepted |-> {unique_chunks[k] : k \in {i \in 1..Len(unique_chunks) :
                                                      should_embed_chunk(unique_chunks[i])}}]]

ElementsOf(seq) == {seq[k] : k \in 1..Len(seq)}

\* the chunks handed to embed_texts_with_cache by the call under way
SentForEmbedding ==
    IF index_run.embed = "none" THEN {} ELSE ElementsOf(index_run.quality_chunks)

\* the contents of the rows the call under way has inserted
Persisted == {document_chunks[k].content : k \in (index_run.rows_before + 1)..Len(document_chunks)}

\* C31: index_documents runs boilerplate filter, chunking, exact dedup,
\* quality gate, embedding and insert in this order: a chunk is sent for
\* embedding or inserted only if it is a chunk of the filtered text that
\* dedup kept and should_embed_chunk accepts, and it is inserted only after
\* the embedding call.
C31_StagesInFixedOrder ==
    index_run.call # << >> =>
        LET stages == StagesOf[index_run.call[1]]
        IN  /\ SentForEmbedding \cup Persisted \subseteq stages.accepted
            /\ Persisted \subseteq ElementsOf(index_run.quality_chunks)
            /\ Persisted # {} => index_run.embed # "none"

\* a call whose text lost boilerplate and whose chunks lost a duplicate has
\* embedded and inserted a chunk
C31_Witness ==
    /\ index_run.call # << >>
    /\ LET call == index_run.call[1]
           stages == StagesOf[call]
       IN  /\ stages.filtered_text # call.text
           /\ Len(stages.unique_chunks) < Len(stages.chunks)
           /\ index_run.embed = "returns"
           /\ Persisted # {}

(***************************************************************************)
(* llm_groq.analyze_policy and validate_and_clean_analysis.                *)
(*                                                                         *)
(* A value parsed from JSON is a tagged record; a dict is a function from  *)
(* its keys to such values.  The texts explored are shorter than           *)
(* max_chars (12000), so the prompt carries the text as it is.             *)
(***************************************************************************)
JStr(s) == [t |-> "str", s |-> s]
JNum(n) == [t |-> "num", n |-> n]
JNull == [t |-> "null"]
JList(items) == [t |-> "list", items |-> items]
JDict(f) == [t |-> "dict", f |-> f]

\* value in [..., None] and value in [...] for lists of str
IsOneOf(value, strings) == value.t = "str" /\ value.s \in strings
IsNoneOrOneOf(value, strings) == value.t = "null" \/ IsOneOf(value, strings)

\* bool(value)
PyTruth(value) ==
    CASE value.t = "str" -> value.s # ""
      [] value.t = "num" -> value.n # 0
      [] value.t = "null" -> FALSE
      [] value.t = "list" -> value.items # << >>
      [] value.t = "dict" -> DOMAIN value.f # {}

\* result.get(key, default) and result[key] = value
Get(fields, key, default) == IF key \in DOMAIN fields THEN fields[key] ELSE default
Put(fields, key, value) ==
    [k \in DOMAIN fields \cup {key} |-> IF k = key THEN value ELSE fields[k]]

\* str.upper()
RECURSIVE Upper(_)
Upper(s) ==
    IF Len(s) = 0 THEN ""
    ELSE IF Len(s) = 1 THEN UpperChar(s)
    ELSE LET h == Len(s) \div 2
         IN Upper(SubSeq(s, 1, h)) \o Upper(SubSeq(s, h + 1, Len(s)))

DigitValue ==
    [c \in Digits |-> CHOOSE n \in 0..9 : SubSeq("0123456789", n + 1, n + 1) = c]

\* int(s) for a str of decimal digits
RECURSIVE ParseInt(_)
ParseInt(s) ==
    IF Len(s) = 0 THEN 0
    ELSE 10 * ParseInt(SubSeq(s, 1, Len(s) - 1)) + DigitValue[Ch(s, Len(s))]

\* format(n, ",") for n >= 0
RECURSIVE FormatCommas(_)
FormatCommas(n) ==
    IF n < 1000 THEN ToString(n)
    ELSE FormatCommas(n \div 1000) \o "," \o Format03d(n % 1000)

\* s.replace(',', '')
RECURSIVE WithoutCommas(_)
WithoutCommas(s) ==
    IF Len(s) = 0 THEN ""
    ELSE (IF Ch(s, 1) = "," THEN "" ELSE Ch(s, 1)) \o WithoutCommas(SubSeq(s, 2, Len(s)))

PyHashMod10000(text, seed) == (Len(text) * 31 + seed) % 10000

\* what validate_and_clean_analysis hands back or raises
Cleaned(fields) == [raised |-> FALSE, result |-> fields, error |-> ""]
Raises(error) == [raised |-> TRUE, result |-> << >>, error |-> error]

TypeName(value) ==
    CASE value.t = "str" -> "str"
      [] value.t = "num" -> "int"
      [] value.t = "null" -> "NoneType"
      [] value.t = "list" -> "list"
      [] value.t = "dict" -> "dict"

\* str(e) of the error raised by value[:n].upper() for a value that is no str
SliceUpperError(value) ==
    IF value.t = "list" THEN "'list' object has no attribute 'upper'"
    ELSE IF value.t = "dict" THEN "unhashable type: 'slice'"
    ELSE "'" \o TypeName(value) \o "' object is not subscriptable"

\* "Ensure policy_number is never 'Not specified'"
policy_number_step(fields, original_text, seed) ==
    IF IsNoneOrOneOf(Get(fields, "policy_number", JNull),
                     {"Not specified", "Not found in policy", ""})
    THEN LET policy_type == Get(fields, "policy_type", JStr("POLICY"))
             provider == Get(fields, "provider", JStr("UNKNOWN"))
         IN  IF policy_type.t # "str" THEN Raises(SliceUpperError(policy_type))
             ELSE IF provider.t # "str" THEN Raises(SliceUpperError(provider))
             ELSE Cleaned(Put(fields, "policy_number",
                      JStr(Upper(PySlice(policy_type.s, 0, 4)) \o "-"
                           \o Upper(PySlice(provider.s, 0, 3)) \o "-"
                           \o Format03d(PyHashMod1000(original_text, seed)))))
    ELSE Cleaned(fields)

\* the dates the explored responses carry, as the ISO date and the number of
\* days from 2026-11-05; any other text fails to parse
ParsedDates ==
    [text \in {"2027-03-31", "31/03/2027", "2026-01-15"} |->
        IF text = "2026-01-15" THEN [iso |-> "2026-01-15", day |-> 0 - 294]
        ELSE [iso |-> "2027-03-31", day |-> 146]]

\* datetime.now(): the day, counted from 2026-11-05, and whether it is
\* exactly midnight
Nows == {[day |-> 0, midnight |-> FALSE], [day |-> 130, midnight |-> FALSE],
         [day |-> 145, midnight |-> FALSE], [day |-> 146, midnight |-> TRUE],
         [day |-> 146, midnight |-> FALSE]}

NoDate(fields) ==
    Put(Put(Put(fields, "expiration_date", JStr("Date not available in policy")),
            "policy_status", JStr("Policy validity period not clear from document")),
        "validity_days", JStr("Validity period not available in policy"))

\* (parsed_date - today).days
DaysRemaining(parsed, today) == parsed.day - today.day - (IF today.midnight THEN 0 ELSE 1)

\* "Clean up expiration date and calculate days remaining"
expiration_step(fields, today) ==
    LET expiry_date == Get(fields, "expiration_date", JStr(""))
    IN  IF PyTruth(expiry_date)
           /\ ~IsNoneOrOneOf(expiry_date, {"Not specified", "Not found in policy",
                                           "Invalid Date", ""})
        THEN IF expiry_date.t = "str" /\ expiry_date.s \in DOMAIN ParsedDates
             THEN LET parsed_date == ParsedDates[expiry_date.s]
                      days_remaining == DaysRemaining(parsed_date, today)
                      dated == Put(fields, "expiration_date", JStr(parsed_date.iso))
                      status(policy_status, validity_days) ==
                          Put(Put(dated, "policy_status", JStr(policy_status)),
                              "validity_days", JStr(validity_days))
                  IN  IF days_remaining < 0
                      THEN status("Expired " \o ToString(0 - days_remaining) \o " days ago",
                                  "Policy expired " \o ToString(0 - days_remaining)
                                  \o " days ago")
                      ELSE IF days_remaining = 0
                      THEN status("Expires today", "Policy expires today")
                      ELSE IF days_remaining <= 30
                      THEN status("Expires in " \o ToString(days_remaining)
                                  \o " days (renewal needed soon)",
                                  "Policy expires in " \o ToString(days_remaining) \o " days")
                      ELSE status("Valid for " \o ToString(days_remaining) \o " days",
                                  "Policy valid for " \o ToString(days_remaining) \o " days")
             ELSE NoDate(fields)
        ELSE NoDate(fields)

\* "Clean up monetary values", for one field
money_step(fields, field) ==
    LET value == Get(fields, field, JStr(""))
        NotGiven == JStr("Amount not specified in policy")
    IN  IF IsNoneOrOneOf(value, {"Not specified", "Not found in policy", "", "NaN",
                                 "Invalid"})
        THEN Put(fields, field, NotGiven)
        ELSE IF value.t = "str" /\ Strip(value.s) # ""
                /\ ~StartsWith(value.s, RupeeSign)
                /\ \E i \in 1..Len(value.s) : Ch(value.s, i) \in Digits
        THEN LET \* numbers[0] of re.findall(r'[\d,]+', value)
                 first == CHOOSE i \in 1..Len(value.s) :
                             /\ Ch(value.s, i) \in DigitOrComma
                             /\ \A j \in 1..(i - 1) : Ch(value.s, j) \notin DigitOrComma
                 number_str ==
                     WithoutCommas(SubSeq(value.s, first, SpanEnd(value.s, first, DigitOrComma)))
             IN  IF number_str = "" THEN Put(fields, field, NotGiven)
                 ELSE Put(fields, field, JStr(RupeeSign \o FormatCommas(ParseInt(number_str))))
        ELSE fields

TextDefaults ==
    [coverage |-> "Coverage details not available in the policy document",
     exclusions |-> "Exclusion details not available in the policy document",
     claim_process |-> "Claim process details not available in the policy document",
     waiting_period |-> "Not specified",
     copay |-> "Not specified"]

\* "Clean up text fields", for one field
text_step(fields, field) ==
    IF IsNoneOrOneOf(Get(fields, field, JStr("")), {"Not specified", "Not found in policy", ""})
    THEN Put(fields, field, JStr(TextDefaults[field]))
    ELSE fields

\* "Ensure key_features is a list and not empty"
key_features_step(fields) ==
    LET key_features == Get(fields, "key_features", JNull)
    IN  IF key_features.t # "list" \/ ~PyTruth(key_features)
        THEN Put(fields, "key_features",
                 JList(<<JStr("Policy features not clearly specified in document")>>))
        ELSE fields

\* value != text
Differs(value, text) == ~IsOneOf(value, {text})

\* "Validate claim_readiness_score"
score_step(fields) ==
    LET score == Get(fields, "claim_readiness_score", JNull)
        available_fields ==
            (IF ~IsNoneOrOneOf(Get(fields, "policy_type", JNull), {"Unknown", ""})
             THEN 1 ELSE 0)
            + (IF ~IsNoneOrOneOf(Get(fields, "provider", JNull),
                                 {"Unknown Provider", "Unknown", ""}) THEN 1 ELSE 0)
            + (IF Differs(Get(fields, "expiration_date", JNull),
                          "Date not available in policy") THEN 2 ELSE 0)
            + (IF Differs(Get(fields, "premium", JNull), "Amount not specified in policy")
               THEN 1 ELSE 0)
            + (IF Differs(Get(fields, "coverage", JNull), TextDefaults["coverage"])
               THEN 2 ELSE 0)
            + (IF Differs(Get(fields, "claim_process", JNull), TextDefaults["claim_process"])
               THEN 1 ELSE 0)
    IN  IF score.t # "num" \/ score.n < 0 \/ score.n > 100
        THEN Put(fields, "claim_readiness_score",
                 JNum(Min(85, Max(15, (available_fields * 100) \div 8))))
        ELSE fields

\* "Clean up provider name", "Clean up policy type"
names_step(fields) ==
    LET named == IF IsNoneOrOneOf(Get(fields, "provider", JNull),
                                  {"Unknown Provider", "Unknown", ""})
                 THEN Put(fields, "provider",
                          JStr("Insurance provider name not found in policy"))
                 ELSE fields
    IN  IF IsNoneOrOneOf(Get(named, "policy_type", JNull), {"Unknown", ""})
        THEN Put(named, "policy_type", JStr("Policy type not clearly specified"))
        ELSE named

validate_and_clean_analysis(value, original_text, seed, today) ==
    IF value.t # "dict"
    THEN Raises("'" \o TypeName(value) \o "' object has no attribute 'get'")
    ELSE LET numbered == policy_number_step(value.f, original_text, seed)
         IN  IF numbered.raised THEN numbered
             ELSE LET dated == expiration_step(numbered.result, today)
                      priced == money_step(money_step(money_step(dated, "premium"),
                                                      "coverage_amount"), "deductible")
                      worded == text_step(text_step(text_step(text_step(text_step(
                                    priced, "coverage"), "exclusions"), "claim_process"),
                                    "waiting_period"), "copay")
                  IN  Cleaned(names_step(score_step(key_features_step(worded))))

\* the record returned for test data
TestRecord(text, seed) ==
    [policy_type |-> JStr("Test Policy"),
     provider |-> JStr("Test Provider"),
     policy_number |-> JStr("TEST-" \o ToString(PyHashMod10000(text, seed))),
     coverage_amount |-> JStr(RupeeSign \o "1,00,000"),
     premium |-> JStr(RupeeSign \o "5,000"),
     deductible |-> JStr(RupeeSign \o "10,000"),
     expiration_date |-> JStr("2026-08-23"),
     coverage |-> JStr("This is a test policy with basic coverage for development purposes."),
     exclusions |-> JStr("Test exclusions apply."),
     claim_process |-> JStr("Test claim process - not for actual use."),
     key_features |-> JList(<<JStr("Test feature 1"), JStr("Test feature 2"),
                              JStr("Development purposes only")>>),
     claim_readiness_score |-> JNum(75)]

\* the record returned by  except json.JSONDecodeError
UnknownRecord(text, seed) ==
    [policy_type |-> JStr("Unknown"),
     provider |-> JStr("Unknown Provider"),
     policy_number |-> JStr("UNKNOWN-" \o Format03d(PyHashMod1000(text, seed))),
     coverage_amount |-> JStr("Not specified"),
     premium |-> JStr("Not specified"),
     deductible |-> JStr("Not specified"),
     expiration_date |-> JStr(""),
     coverage |-> JStr("Unable to determine coverage details."),
     exclusions |-> JStr("Unable to determine exclusions."),
     claim_process |-> JStr("Unable to determine claim process."),
     key_features |-> JList(<<JStr("Analysis unavailable")>>),
     claim_readiness_score |-> JNum(0)]

\* the record returned by  except Exception as e
ErrorRecord(text, seed, error) ==
    [policy_type |-> JStr("Unknown"),
     provider |-> JStr("Unknown Provider"),
     policy_number |-> JStr("ERROR-" \o Format03d(PyHashMod1000(text, seed))),
     coverage_amount |-> JStr("Not specified"),
     premium |-> JStr("Not specified"),
     deductible |-> JStr("Not specified"),
     expiration_date |-> JStr(""),
     coverage |-> JStr("Error: " \o error),
     exclusions |-> JStr(""),
     claim_process |-> JStr(""),
     key_features |-> JList(<<JStr("Error occurred during analysis")>>),
     claim_readiness_score |-> JNum(0)]

\* the fields every record analyze_policy builds itself carries
RequiredFields == DOMAIN UnknownRecord("", 0)

IsAsciiLetter(c) == c \in (DOMAIN LowerOf) \cup (DOMAIN UpperOf)

\* The grave accent (character 96) cannot be written in a string of this
\* module: ^ stands for it, and no explored text holds a ^ of its own.
Backquote == "^"
Fence == Backquote \o Backquote \o Backquote

\* re.sub of a leading fence with its letters and newline, and of a
\* trailing newline and fence, by ""
StripFences(output_text) ==
    LET n == Len(output_text)
        tag == SpanEnd(output_text, 4, (DOMAIN LowerOf) \cup (DOMAIN UpperOf))
        opened == StartsWith(output_text, Fence) /\ Ch(output_text, tag + 1) = "\n"
        from == IF opened THEN tag + 2 ELSE 1
        closed == n - 3 >= from /\ SubSeq(output_text, n - 3, n) = "\n" \o Fence
    IN  SubSeq(output_text, from, IF closed THEN n - 4 ELSE n)

\* the JSON documents the explored responses carry
HealthDoc ==
    "{\"policy_type\": \"Health\", \"provider\": \"HDFC ERGO\", \"policy_number\": \"HE-12345\", "
    \o "\"coverage_amount\": \"" \o RupeeSign \o "5,00,000\", \"premium\": \"Rs. 15,000 per year\", "
    \o "\"expiration_date\": \"2027-03-31\", \"coverage\": \"Hospitalisation\", "
    \o "\"key_features\": [\"Cashless\"], \"claim_readiness_score\": 80}"
SparseDoc ==
    "{\"policy_type\": \"\", \"provider\": \"Unknown\", \"expiration_date\": \"31/03/2027\", "
    \o "\"premium\": \"Rs, 5000\", \"deductible\": \"2500\", \"key_features\": \"Cashless\", "
    \o "\"claim_readiness_score\": 150}"
NumberTypeDoc == "{\"policy_type\": 7, \"provider\": \"HDFC ERGO\"}"
NullProviderDoc == "{\"policy_type\": \"Health\", \"provider\": null}"
ListDoc == "[\"Health\"]"
EmptyDoc == "{}"
NullDoc == "null"
OddDoc ==
    "{\"policy_number\": \"P-1\", \"policy_type\": null, \"expiration_date\": \"Lifetime\", "
    \o "\"coverage\": 5, \"claim_readiness_score\": \"high\"}"
ExpiredDoc ==
    "{\"policy_number\": \"P-2\", \"expiration_date\": \"2026-01-15\", \"premium\": \""
    \o RupeeSign \o "12,000\", \"coverage_amount\": \"7 lakh\", \"exclusions\": \"Not specified\"}"

\* json.loads of these documents
JsonValueOf ==
    (HealthDoc :> JDict([policy_type |-> JStr("Health"), provider |-> JStr("HDFC ERGO"),
                         policy_number |-> JStr("HE-12345"),
                         coverage_amount |-> JStr(RupeeSign \o "5,00,000"),
                         premium |-> JStr("Rs. 15,000 per year"),
                         expiration_date |-> JStr("2027-03-31"),
                         coverage |-> JStr("Hospitalisation"),
                         key_features |-> JList(<<JStr("Cashless")>>),
                         claim_readiness_score |-> JNum(80)]))
    @@ (SparseDoc :> JDict([policy_type |-> JStr(""), provider |-> JStr("Unknown"),
                            expiration_date |-> JStr("31/03/2027"),
                            premium |-> JStr("Rs, 5000"), deductible |-> JStr("2500"),
                            key_features |-> JStr("Cashless"),
                            claim_readiness_score |-> JNum(150)]))
    @@ (NumberTypeDoc :> JDict([policy_type |-> JNum(7), provider |-> JStr("HDFC ERGO")]))
    @@ (NullProviderDoc :> JDict([policy_type |-> JStr("Health"), provider |-> JNull]))
    @@ (ListDoc :> JList(<<JStr("Health")>>))
    @@ (EmptyDoc :> JDict(<< >>))
    @@ (NullDoc :> JNull)
    @@ (OddDoc :> JDict([policy_number |-> JStr("P-1"), policy_type |-> JNull,
                         expiration_date |-> JStr("Lifetime"), coverage |-> JNum(5),
                         claim_readiness_score |-> JStr("high")]))
    @@ (ExpiredDoc :> JDict([policy_number |-> JStr("P-2"),
                             expiration_date |-> JStr("2026-01-15"),
                             premium |-> JStr(RupeeSign \o "12,000"),
                             coverage_amount |-> JStr("7 lakh"),
                             exclusions |-> JStr("Not specified")]))

\* json.loads(output_text): the value, or JSONDecodeError for a text that
\* is none of the documents
json_loads(output_text) ==
    IF output_text \in DOMAIN JsonValueOf
    THEN [decoded |-> TRUE, value |-> JsonValueOf[output_text]]
    ELSE [decoded |-> FALSE, value |-> JNull]

\* what make_llm_request(prompt) hands to analyze_policy
AnalyzeResponses ==
    {Str(Fence \o "json\n" \o HealthDoc \o "\n" \o Fence), Str(HealthDoc), Str("  " \o SparseDoc \o "\n"),
     Str(NumberTypeDoc), Str(Fence \o "\n" \o NullProviderDoc \o "\n" \o Fence \o "\n"), Str(ListDoc),
     Str(EmptyDoc), Str(NullDoc), Str(OddDoc), Str(ExpiredDoc),
     Str(Fence \o "json " \o EmptyDoc \o Fence), Str(Fence \o "\n" \o Fence),
     Str("I could not read this policy."), Str(""),
     None, Raise("Connection error.")}

AnalyzeTexts ==
    {"Health policy of HDFC ERGO, sum insured Rs 5,00,000.",
     "This is a TEST insurance policy for automated testing.",
     ""}

MaxAnalyzeCalls == 2     \* calls of analyze_policy in one run

\* how the try block of analyze_policy ends, from the response on
Throws(exception, error) == [thrown |-> exception, error |-> error, result |-> << >>]

try_block(text, response, seed, today) ==
    IF IsRaise(response) THEN Throws("Exception", response.text)
    ELSE IF IsNone(response) THEN Throws("Exception", "LLM returned no response")
    ELSE LET output_text == Strip(response.text)
             unfenced == IF StartsWith(output_text, Fence)
                         THEN Strip(StripFences(output_text)) ELSE output_text
             loaded == json_loads(unfenced)
             cleaned == validate_and_clean_analysis(loaded.value, text, seed, today)
         IN  IF ~loaded.decoded THEN Throws("JSONDecodeError", "")
             ELSE IF cleaned.raised THEN Throws("Exception", cleaned.error)
             ELSE [thrown |-> "", error |-> "", result |-> cleaned.result]

Returned(path, fields) == [raised |-> FALSE, path |-> path, result |-> <<fields>>]

\* the try block with  except json.JSONDecodeError  alone
after_response_JsonErrorsOnly(text, response, seed, today) ==
    LET tried == try_block(text, response, seed, today)
    IN  IF tried.thrown = "JSONDecodeError"
        THEN Returned("unknown", UnknownRecord(text, seed))
        ELSE IF tried.thrown = "Exception"
        THEN [raised |-> TRUE, path |-> "raised", result |-> << >>]
        ELSE Returned("parsed", tried.result)

\* the try block and its two except clauses
after_response(text, response, seed, today) ==
    LET tried == try_block(text, response, seed, today)
    IN  IF tried.thrown = "JSONDecodeError"
        THEN Returned("unknown", UnknownRecord(text, seed))
        ELSE IF tried.thrown = "Exception"
        THEN Returned("error", ErrorRecord(text, seed, tried.error))
        ELSE Returned("parsed", tried.result)

IdleAnalyze ==
    [pc |-> "idle", calls |-> 0, text |-> "", response |-> << >>, today |-> << >>,
     path |-> "none",
     result |-> << >>, raised |-> FALSE]

InitAnalyze ==
    /\ ChainUnused
    /\ CacheAtRest
    /\ ChunkUnused
    /\ DedupUnused
    /\ EmbedUnused
    /\ StoreUnused
    /\ LimitUnused
    /\ ChatUnused
    /\ analyze_run = IdleAnalyze

besideAnalyze == <<chainVars, cacheVars, chunk_run, dedup_run, embed_run, storeVars,
                   limit_run, chat_run>>

\* analyze_policy(text): test data is answered at once, any other text goes
\* into the prompt
AnalyzeBegin(text) ==
    /\ analyze_run.pc = "idle"
    /\ analyze_run.calls < MaxAnalyzeCalls
    /\ analyze_run' =
          IF Contains(Lower(text), "test insurance policy for automated testing")
          THEN [IdleAnalyze EXCEPT !.calls = analyze_run.calls + 1, !.text = text,
                                   !.path = "test",
                                   !.result = <<TestRecord(text, hash_seed)>>]
          ELSE [IdleAnalyze EXCEPT !.calls = analyze_run.calls + 1, !.text = text,
                                   !.pc = "request"]
    /\ UNCHANGED besideAnalyze

\* make_llm_request(prompt) returns or raises, and the rest of the try
\* block and the except clauses run
AnalyzeRespond(response, today) ==
    /\ analyze_run.pc = "request"
    /\ LET after == after_response(analyze_run.text, response, hash_seed, today)
       IN  analyze_run' = [analyze_run EXCEPT
                              !.pc = "idle",
                              !.response = <<response>>,
                              !.today = <<today>>,
                              !.path = after.path,
                              !.result = after.result,
                              !.raised = after.raised]
    /\ UNCHANGED besideAnalyze

NextAnalyze ==
    \/ \E text \in AnalyzeTexts : AnalyzeBegin(text)
    \/ \E response \in AnalyzeResponses, today \in Nows : AnalyzeRespond(response, today)

SpecAnalyze == InitAnalyze /\ [][NextAnalyze]_vars

AnalyzeDone == analyze_run.pc = "idle" /\ analyze_run.calls > 0

\* every required field is there with the type of the default records
WellTyped(record) ==
    /\ RequiredFields \subseteq DOMAIN record
    /\ \A field \in RequiredFields :
          IF field = "key_features"
          THEN /\ record[field].t = "list"
               /\ \A k \in 1..Len(record[field].items) : record[field].items[k].t = "str"
          ELSE IF field = "claim_readiness_score" THEN record[field].t = "num"
          ELSE record[field].t = "str"

\* the response is no JSON object once its code fences are stripped
Malformed(response) ==
    \/ ~IsStr(response)
    \/ LET output_text == Strip(response.text)
           loaded == json_loads(IF StartsWith(output_text, Fence)
                                THEN Strip(StripFences(output_text)) ELSE output_text)
       IN  ~loaded.decoded \/ loaded.value.t # "dict"

\* C32: analyze_policy never raises; whatever make_llm_request hands back,
\* it returns a record with the required fields, and for a response that
\* does not parse or is no JSON object (and for any error in the try block)
\* the record is a default record: exactly the required fields, each of its
\* type.
C32_AnalyzeNeverRaises ==
    /\ ~analyze_run.raised
    /\ AnalyzeDone =>
          /\ Len(analyze_run.result) = 1
          /\ RequiredFields \subseteq DOMAIN analyze_run.result[1]
          /\ analyze_run.response # << >> /\ Malformed(analyze_run.response[1])
                => analyze_run.path \in {"unknown", "error"}
          /\ analyze_run.path \in {"unknown", "error"}
                => /\ DOMAIN analyze_run.result[1] = RequiredFields
                   /\ WellTyped(analyze_run.result[1])

\* a response that parses to a JSON object of the wrong structure (a number
\* as policy_type) has been answered with the default record
C32_Witness ==
    /\ AnalyzeDone
    /\ analyze_run.response = <<Str(NumberTypeDoc)>>
    /\ analyze_run.path = "error"
    /\ WellTyped(analyze_run.result[1])

\* the calls of model.generate_content made by make_gemini_request
GeminiCalls == {i \in 1..Len(calls) : calls[i].backend = "gemini_pro"}

RECURSIVE TwoToThe(_)
TwoToThe(n) == IF n = 0 THEN 1 ELSE 2 * TwoToThe(n - 1)

\* C33: for every max_retries >= 1 and every sequence of backend outcomes,
\* make_gemini_request calls the backend at most max_retries times and
\* sleeps at most max_retries - 1 times, for delay, 2 * delay, 4 * delay, ...
\* (delay = 1); an iteration of its loop either ends the call or sleeps once
\* and moves to a later attempt that is still below max_retries, and a
\* failure of the last allowed attempt ends the call, so the loop ends
\* after at most max_retries iterations.
C33_RetriesBoundedWithBackoff ==
    /\ [](/\ Cardinality(GeminiCalls) <= max_retries
          /\ Len(sleeps) <= max_retries - 1
          /\ \A i \in 1..Len(sleeps) : sleeps[i] = TwoToThe(i - 1)
          /\ attempt < max_retries)
    /\ [][pc = "llm_gemini" =>
            \/ pc' # "llm_gemini"
            \/ /\ attempt' = attempt + 1
               /\ sleeps' = Append(sleeps, delay)
               /\ delay' = 2 * delay
               /\ Cardinality(GeminiCalls') = Cardinality(GeminiCalls) + 1]_vars
    /\ [][pc = "llm_gemini" /\ attempt = max_retries - 1 => pc' # "llm_gemini"]_vars

\* with max_retries = 3 the backend was rate-limited three times: three
\* calls, sleeps of 1 and 2, and the third failure was raised
C33_Witness ==
    /\ max_retries = 3
    /\ pc = "llm_except"
    /\ Cardinality(GeminiCalls) = 3
    /\ \A i \in GeminiCalls : calls[i].outcome = "rate_limit"
    /\ sleeps = <<1, 2>>

(***************************************************************************)
(* Properties of a set and the eviction run it triggers.                   *)
(***************************************************************************)
\* C34: whenever set(k, v) returns True, k is present with value v right
\* afterwards: the eviction run of that set never removes the entry the
\* set has just inserted, under every strategy, every max_size >= 1 and
\* every accepted item size.
C34_SetKeepsItsEntry ==
    \A key \in Keys, value \in Values, ttl \in TtlArgs :
        LET out == set(key, value, ttl)
        IN  out.ret =>
               /\ HasKey(out.c.cache, key)
               /\ ItemOf(out.c.cache, key).value = value

\* C35: a cache with max_size = N can hold N entries at once: a set that
\* brings the entry count to at most max_size and the byte total to at most
\* the byte budget evicts nothing.
C35_HoldsMaxSizeEntries ==
    \A key \in Keys, value \in Values, ttl \in TtlArgs :
        LET inserted == Inserted(key, value, ttl)
        IN  /\ _calculate_size(value) <= max_memory_bytes
            /\ Len(inserted.cache) <= max_size
            /\ inserted.usage <= max_memory_bytes
            => set(key, value, ttl).c = inserted

\* C37: an entry stored with an explicit ttl argument expires according to
\* that argument, ttl = 0 included: once more than ttl seconds have passed
\* since the set, the entry is expired.
C37_ExplicitTtlGoverns ==
    \A key \in Keys, value \in Values, ttl \in TtlArgs \ {NoInt} :
        LET out == set(key, value, ttl)
        IN  out.ret /\ HasKey(out.c.cache, key) =>
               \A later \in (now + ttl[1] + 1)..(MaxTime + 2) :
                   is_expired(ItemOf(out.c.cache, key), later)

SetOf(seq) == {seq[i] : i \in 1..Len(seq)}

\* C40: between calls, _current_memory_usage is the sum of size_bytes over
\* the stored entries and _access_order holds exactly the keys of _cache,
\* whatever sets (overwriting and rejected ones included), gets, deletes,
\* evictions, expiry sweeps and clears have run.
C40_CountersMatchEntries ==
    /\ _current_memory_usage = SumSizes(_cache)
    /\ SetOf(_access_order) = SetOf(KeysOf(_cache))
    /\ Len(_access_order) = Len(_cache)

\* two entries are stored after an overwrite, an eviction or removal has
\* happened before, and bytes are in use
C40_Witness ==
    /\ Len(_cache) = 2
    /\ _current_memory_usage > 1
    /\ \E k \in Keys : last_set[k].state = "live" /\ last_set[k].at > 0
    /\ KeysOf(_cache) # _access_order

MaxLimitClock == 3     \* latest clock reading explored
MaxLimitCalls == 4     \* check_rate_limit calls of one behaviour

LimitStrategies == {"fixed_window", "sliding_window", "token_bucket"}
LimitScopes == {"global", "user"}
Identifiers == {"u1", "u2"}
LimitNames == {"upload", "unlisted"}

RateLimitConfig(max_requests, window_seconds, limit_strategy, scope, burst_allowance) ==
    [max_requests |-> max_requests, window_seconds |-> window_seconds,
     strategy |-> limit_strategy, scope |-> scope, burst_allowance |-> burst_allowance]

\* the configurations of the limit "upload"
LimitConfigs ==
    {RateLimitConfig(m, 2, s, sc, b) :
        m \in {1, 2}, s \in LimitStrategies, sc \in LimitScopes, b \in {0, 1}}

RateLimitResult(allowed, remaining, retry_after, current_usage) ==
    [allowed |-> allowed, remaining |-> remaining, retry_after |-> retry_after,
     current_usage |-> current_usage]

\* a limiter's answer: its state after the call, and the result
Limited(state, answer) == [state |-> state, result |-> answer]

\* defaultdict: d[key], with the default put in place when key is missing
Lookup(d, key, default) == IF key \in DOMAIN d THEN d[key] ELSE default
Stored(d, key, value) == [k \in DOMAIN d \cup {key} |-> IF k = key THEN value ELSE d[k]]

FixedWindow_is_allowed(windows, key, config, current_time) ==
    LET window_start == (current_time \div config.window_seconds) * config.window_seconds
        of_key == Lookup(windows, key, << >>)
        current_count == Lookup(of_key, window_start, 0)
        read == Stored(windows, key, Stored(of_key, window_start, current_count))
    IN  IF current_count >= config.max_requests
        THEN Limited(read, RateLimitResult(FALSE, 0,
                               <<window_start + config.window_seconds - current_time>>,
                               current_count))
        ELSE Limited(Stored(windows, key, Stored(of_key, window_start, current_count + 1)),
                     RateLimitResult(TRUE, config.max_requests - (current_count + 1),
                                     << >>, current_count + 1))

\* while request_times and request_times[0] <= cutoff_time: popleft()
RECURSIVE DropOld(_, _)
DropOld(request_times, cutoff_time) ==
    IF request_times # << >> /\ request_times[1] <= cutoff_time
    THEN DropOld(Tail(request_times), cutoff_time)
    ELSE request_times

SlidingWindow_is_allowed(requests, key, config, current_time) ==
    LET cutoff_time == current_time - config.window_seconds
        request_times == DropOld(Lookup(requests, key, << >>), cutoff_time)
    IN  IF Len(request_times) >= config.max_requests
        THEN Limited(Stored(requests, key, request_times),
                     RateLimitResult(FALSE, 0,
                         <<request_times[1] + config.window_seconds - current_time + 1>>,
                         Len(request_times)))
        ELSE Limited(Stored(requests, key, Append(request_times, current_time)),
                     RateLimitResult(TRUE, config.max_requests - (Len(request_times) + 1),
                                     << >>, Len(request_times) + 1))

\* the bucket of a key that has none yet
NewBucket(current_time) == [tokens |-> 0, last_update |-> current_time]

TokenBucket_is_allowed(buckets, key, config, current_time) ==
    LET bucket == Lookup(buckets, key, NewBucket(current_time))
        one_token == config.window_seconds
        capacity == (config.max_requests + config.burst_allowance) * one_token
        time_elapsed == current_time - bucket.last_update
        tokens_to_add == time_elapsed * config.max_requests
        tokens == Min(capacity, bucket.tokens + tokens_to_add)
    IN  IF tokens >= one_token
        THEN Limited(Stored(buckets, key,
                            [tokens |-> tokens - one_token, last_update |-> current_time]),
                     RateLimitResult(TRUE, (tokens - one_token) \div one_token, << >>,
                                     (capacity - (tokens - one_token)) \div one_token))
        ELSE Limited(Stored(buckets, key, [tokens |-> tokens, last_update |-> current_time]),
                     RateLimitResult(FALSE, 0, <<(one_token - tokens) \div config.max_requests>>,
                                     (capacity - tokens) \div one_token))

_generate_key(scope, identifier, limit_name) ==
    IF scope = "global" THEN "global:" \o limit_name
    ELSE "user:" \o identifier \o ":" \o limit_name

\* limiter.is_allowed(key, config), limiter being self._limiters[config.strategy]
is_allowed(limiter, key, config, current_time) ==
    CASE config.strategy = "fixed_window" ->
            FixedWindow_is_allowed(limiter, key, config, current_time)
      [] config.strategy = "sliding_window" ->
            SlidingWindow_is_allowed(limiter, key, config, current_time)
      [] config.strategy = "token_bucket" ->
            TokenBucket_is_allowed(limiter, key, config, current_time)

NoCheck == [limit_name |-> "", key |-> "", unseen |-> FALSE,
            result |-> RateLimitResult(TRUE, 0, << >>, 0)]

\* RateLimitManager() followed by add_limit("upload", config): no limiter
\* holds a key
InitLimit ==
    /\ ChainUnused
    /\ CacheAtRest
    /\ ChunkUnused
    /\ DedupUnused
    /\ EmbedUnused
    /\ StoreUnused
    /\ AnalyzeUnused
    /\ ChatUnused
    /\ \E config \in LimitConfigs :
          limit_run = [pc |-> "idle", time |-> 0, calls |-> 0,
                       _configs |-> [n \in {"upload"} |-> config],
                       _limiters |-> [s \in LimitStrategies |-> << >>],
                       _stats |-> [requests |-> 0, blocked |-> 0],
                       last |-> NoCheck]

besideLimit == <<chainVars, cacheVars, chunk_run, dedup_run, embed_run, storeVars,
                 analyze_run, chat_run>>

\* one second passes
LimitTick ==
    /\ limit_run.pc = "idle"
    /\ limit_run.time < MaxLimitClock
    /\ limit_run' = [limit_run EXCEPT !.time = @ + 1]
    /\ UNCHANGED besideLimit

\* check_rate_limit(limit_name, identifier)
check_rate_limit(limit_name, identifier) ==
    /\ limit_run.pc = "idle"
    /\ limit_run.calls < MaxLimitCalls
    /\ IF limit_name \notin DOMAIN limit_run._configs
       THEN limit_run' = [limit_run EXCEPT
                             !.calls = @ + 1,
                             !.last = [limit_name |-> limit_name, key |-> "",
                                       unseen |-> FALSE,
                                       result |-> RateLimitResult(TRUE, 999999, << >>, 0)]]
       ELSE LET config == limit_run._configs[limit_name]
                key == _generate_key(config.scope, identifier, limit_name)
                limiter == limit_run._limiters[config.strategy]
                answer == is_allowed(limiter, key, config, limit_run.time)
            IN  limit_run' = [limit_run EXCEPT
                                 !.calls = @ + 1,
                                 !._limiters[config.strategy] = answer.state,
                                 !._stats = [requests |-> @.requests + 1,
                                             blocked |-> IF answer.result.allowed
                                                         THEN @.blocked
                                                         ELSE @.blocked + 1],
                                 !.last = [limit_name |-> limit_name, key |-> key,
                                           unseen |-> key \notin DOMAIN limiter,
                                           result |-> answer.result]]
    /\ UNCHANGED besideLimit

NextLimit ==
    \/ LimitTick
    \/ \E limit_name \in LimitNames, identifier \in Identifiers :
          check_rate_limit(limit_name, identifier)

SpecLimit == InitLimit /\ [][NextLimit]_vars

\* C39: for the fixed window, the sliding window and the token bucket, and
\* every configuration with max_requests of at least 1, the first request
\* ever made for a key not seen before is allowed by check_rate_limit.
C39_FirstRequestAllowed ==
    (/\ limit_run.last.unseen
     /\ limit_run._configs["upload"].max_requests >= 1)
        => limit_run.last.result.allowed

(***************************************************************************)
(* main.chat, lines 613-658: the policy is looked up for the user, the     *)
(* chunks are retrieved with retrieve_top_k(question, k=5) and the prompt  *)
(* and the citations are built from them.  The steps of retrieve_top_k are *)
(* the actions RetrieveEmbed, RetrieveSearch and RetrieveSearchFails.  The *)
(* completion chain that answers the prompt is the subject of SpecChain;   *)
(* here its answer is an input.                                            *)
(***************************************************************************)
MaxChatCalls == 2      \* chat requests of one behaviour

Users == {"u1", "u2"}

\* the rows of the policies table: id, user_id, extracted_text
PolicyRows ==
    << [id |-> "doc123", user_id |-> "u1", extracted_text |-> LongPolicyText],
       [id |-> "doc456", user_id |-> "u2", extracted_text |-> LongPolicyText],
       [id |-> "doc789", user_id |-> "u1", extracted_text |-> ShortPolicyText] >>
ChatPolicyIds == {"doc123", "doc456", "doc789", "doc000"}

\* the document_chunks table with the chunks of doc123 alone, with those of
\* doc456 as well, and with other chunks for doc456
OwnRows == SubSeq(IndexedRows, 1, 3)
OtherRows ==
    OwnRows \o << RowOf("doc456", 0, ClaimsFiled, <<Vector(ClaimsFiled, ExpectedEmbedDim)>>) >>
ChatStores == {<< >>, OwnRows, IndexedRows, OtherRows}

ChatAnswers == {"Room rent and nursing charges are covered (chunk 1).",
                "Service temporarily unavailable. Please try again later."}

\* .select(...).eq("id", policy_id).eq("user_id", user_id).execute().data
PoliciesOf(policy_id, user_id) ==
    SelectSeq(PolicyRows, LAMBDA p : p.id = policy_id /\ p.user_id = user_id)

\* the (idx, content, score) tuples as the loop of line 646 reads them
TopOf(tuples) ==
    [i \in 1..Len(tuples) |->
        [id |-> tuples[i][1], content |-> tuples[i][2], score |-> tuples[i][3]]]

\* citations.append({"id": idx, "excerpt": excerpt, "score": score})
CitationsOf(top) ==
    [i \in 1..Len(top) |->
        [id |-> top[i].id, excerpt |-> Excerpt(top[i].content), score |-> top[i].score]]

\* top = retrieve_top_k(question, k=5)
RetrieveArgs(question, policy_id) ==
    [query |-> question, k |-> DefaultK, policy_id |-> << >>]

IdleChat ==
    [pc |-> "idle", calls |-> 0, policy_id |-> "", question |-> "", user_id |-> "",
     status |-> 0, extracted_text |-> "", retrieval |-> "none", top |-> << >>,
     citations |-> << >>, final_prompt |-> "", answer |-> ""]

InitChat ==
    /\ ChainUnused
    /\ CacheAtRest
    /\ ChunkUnused
    /\ DedupUnused
    /\ EmbedUnused
    /\ AnalyzeUnused
    /\ LimitUnused
    /\ index_run = [pc |-> "unused"]
    /\ document_chunks \in ChatStores
    /\ retrieve_run = IdleRetrieve
    /\ chat_run = IdleChat

besideChat == <<chainVars, cacheVars, chunk_run, dedup_run, embed_run, index_run,
                document_chunks, analyze_run, limit_run>>

\* lines 601-639: the request arrives; rag_importable is whether
\* `from src.rag import retrieve_top_k` succeeds
ChatBegin(policy_id, question, user_id, rag_importable) ==
    /\ chat_run.pc \in {"idle", "done"}
    /\ chat_run.calls < MaxChatCalls
    /\ LET data == PoliciesOf(policy_id, user_id)
           request == [IdleChat EXCEPT !.calls = chat_run.calls + 1,
                                       !.policy_id = policy_id,
                                       !.question = question,
                                       !.user_id = user_id]
           args == RetrieveArgs(question, policy_id)
       IN  IF data = << >>
           THEN \* HTTPException(404) is raised inside the try and caught by
                \* `except Exception`, which raises HTTPException(500)
                /\ chat_run' = [request EXCEPT !.pc = "done", !.status = 500]
                /\ UNCHANGED retrieve_run
           ELSE IF Len(data[1].extracted_text) < 50
           THEN /\ chat_run' = [request EXCEPT
                                   !.pc = "done", !.status = 200,
                                   !.extracted_text = data[1].extracted_text,
                                   !.answer = "This policy appears to have no extracted text. Please try re-uploading the policy document."]
                /\ UNCHANGED retrieve_run
           ELSE IF ~rag_importable
           THEN /\ chat_run' = [request EXCEPT
                                   !.pc = "done", !.status = 200,
                                   !.extracted_text = data[1].extracted_text,
                                   !.answer = "Server misconfiguration: retrieval not available"]
                /\ UNCHANGED retrieve_run
           ELSE /\ chat_run' = [request EXCEPT
                                   !.pc = "retrieve",
                                   !.extracted_text = data[1].extracted_text]
                /\ retrieve_run' = [IdleRetrieve EXCEPT
                                       !.pc = "embed", !.query = args.query,
                                       !.k = args.k, !.policy_id = args.policy_id]
    /\ UNCHANGED besideChat

\* lines 637-658: retrieve_top_k returned or raised; the prompt and the
\* citations are built
ChatBuild ==
    /\ chat_run.pc = "retrieve"
    /\ retrieve_run.pc = "idle"
    /\ retrieve_run.returned
    /\ LET top == IF retrieve_run.raised THEN << >> ELSE TopOf(retrieve_run.result)
       IN  chat_run' = [chat_run EXCEPT
                           !.pc = "llm",
                           !.retrieval = retrieve_run.embed,
                           !.top = top,
                           !.citations = CitationsOf(top),
                           !.final_prompt = FinalPrompt(chat_run.extracted_text,
                                                        chat_run.question, top)]
    /\ retrieve_run' = IdleRetrieve
    /\ UNCHANGED besideChat

\* lines 660-697: the chain (or the fallback) gave the answer, which is
\* returned with the citations
ChatAnswer(answer) ==
    /\ chat_run.pc = "llm"
    /\ chat_run' = [chat_run EXCEPT !.pc = "done", !.status = 200, !.answer = answer]
    /\ UNCHANGED <<retrieve_run, besideChat>>

NextChat ==
    \/ \E policy_id \in ChatPolicyIds, question \in Queries, user_id \in Users,
          rag_importable \in BOOLEAN :
          ChatBegin(policy_id, question, user_id, rag_importable)
    \/ \E outcome \in QueryEmbedOutcomes : RetrieveEmbed(outcome)
    \/ RetrieveSearch
    \/ RetrieveSearchFails
    \/ ChatBuild
    \/ \E answer \in ChatAnswers : ChatAnswer(answer)

SpecChat == InitChat /\ [][NextChat]_vars

\* the prompt and the citations of the running request have been built
ChatBuilt == chat_run.pc \in {"llm", "done"} /\ chat_run.final_prompt # ""

\* the rows of a policy, with their ids
ChunksOf(table, policy_id) ==
    {<<r, table[r]>> : r \in {i \in 1..Len(table) : table[i].policy_id = policy_id}}

\* the prompts and citations chat can build on a table when the search
\* answers
BuiltOn(table, extracted_text, question) ==
    LET params == ParamsOf(Vector(question, ExpectedEmbedDim), DefaultK, << >>)
    IN  {[final_prompt |-> FinalPrompt(extracted_text, question, rows),
          citations |-> CitationsOf(rows)] : rows \in VectorSearch(table, params)}

\* C36: the context chunks and the citations chat returns for a question
\* about policy P come only from chunks indexed for P, and for two stores
\* that differ only in the chunks of other policies chat on P builds the
\* same prompt and returns the same citations.
C36_OnlyChunksOfThePolicy ==
    ChatBuilt =>
        /\ \A i \in 1..Len(chat_run.citations) :
              document_chunks[chat_run.citations[i].id].policy_id = chat_run.policy_id
        /\ chat_run.retrieval = "vector" =>
              \A other \in ChatStores :
                  ChunksOf(other, chat_run.policy_id)
                        = ChunksOf(document_chunks, chat_run.policy_id)
                    => [final_prompt |-> chat_run.final_prompt,
                        citations |-> chat_run.citations]
                          \in BuiltOn(other, chat_run.extracted_text, chat_run.question)

====
